---- MODULE Spec2Model ----
(***************************************************************************)
(* FastRead: the reading position engine.                                  *)
(*                                                                         *)
(* Spec     models src/src/screens/ReaderScreen.tsx together with the      *)
(*          gesture handlers of src/src/components/HeadlinesRenderer.tsx   *)
(*          (mounted while isTickerMode is true).                          *)
(* SpecTts  models the narrating ReaderScreen of src/unnamed/part_003,     *)
(*          which also writes the cursor from speech boundary events.      *)
(* SpecRun  is one autoplay run of ReaderScreen.tsx from the first word,   *)
(*          with the frame times added up.                                 *)
(* SpecBook is processBookText of src/unnamed/part_002 on short texts.     *)
(* SpecSpeech is the narration of one chunk of real words (part_003).      *)
(* SpecWindow is ReaderScreen.tsx over a book longer than the window that  *)
(*          HeadlinesRenderer.tsx renders; SpecRender is the same book     *)
(*          with a shorter walk, for what the renderer draws, and          *)
(*          SpecMirror the same book dragged, for the mirror baseIndex.    *)
(* SpecChunks is the narration of a stream longer than one chunk.          *)
(* SpecStorage is the book list of src/src/services/storage.ts, written by *)
(*          the calls of the app context (src/unnamed/part_000).           *)
(*                                                                         *)
(* The cursor (progress) is a JavaScript number.  It is kept here in fixed *)
(* point: one word is MsPerMinute (60000) units, which makes the autoplay  *)
(* increment (wpm / 60000) * dt the exact integer wpm * dt.                *)
(***************************************************************************)
EXTENDS Integers, Sequences, FiniteSets, TLC

\* ------------------------------------------------------------------ bounds
\* Largest word stream that is explored (N ranges over 0..MaxWords).
MaxWords == 3
\* The discrete clock can be restarted past the end of the stream for ever;
\* targetIndex is explored up to contentLength + MaxOverrun.
MaxOverrun == 1
\* Largest word stream explored with narration.
MaxNarrated == 2

\* ------------------------------------------------------- program constants
MsPerMinute == 60000
MaxFrameMs == 50
DefaultFrameMs == 16
DefaultWpm == 300
FontSize == 40
\* sensitivity = 0.02 = 1 / SensitivityDiv; ticker mode multiplies by 0.2.
SensitivityDiv == 50
TickerDiv == 5
\* CHAR_W_MULTIPLIER = 0.65, in percent.
CharWidthPercent == 65
\* |velocity| < 0.5 snaps at once; velocities are kept in tenths.
SnapVelocity == 5
\* deceleration 0.992, in thousandths.
Deceleration == 992

\* One word, in cursor units.
Word == MsPerMinute

\* ------------------------------------------------------------------ inputs
\* Positions of the rate slider (minimumValue 100, maximumValue 1000, step 10).
Rates == {300, 600}
\* timeSincePreviousFrame values handed to the frame callback, in ms.
FrameTimes == {50, 1000}
\* Pointer translation since the start of the gesture, in layout units.
Translations == {-125, 125}
\* Horizontal translations handed to the ticker renderer's own responder.
TickerTranslations == {-13, 13}
\* Exit velocities -v * 20 of a release, in tenths.
Velocities == {-6, -3, 3, 6}

VARIABLES
    contentLength,      \* contentLength.value = content.length (N)
    wpm,                \* React state wpm (0 = paused)
    savedWpm,           \* React state savedWpm
    isTickerMode,       \* React state isTickerMode
    baseIndex,          \* React state baseIndex (low-frequency mirror)
    progress,           \* progress.value, in 1/MsPerMinute words
    isInteracting,      \* isInteracting.value
    isManualTransition, \* isManualTransition.value
    waitTimer,          \* waitTimer.value, in ms
    targetIndex,        \* targetIndex.value
    startProgressRef,   \* startProgressRef.current while a drag reads it
    wasPlayingBeforeModeSwitch,
    animation,          \* the animation attached to progress, if any
    responder,          \* which PanResponder holds the current touch
    \* state of the narrating ReaderScreen (src/unnamed/part_003) only
    isPlaying,          \* isPlaying.value
    ttsEnabled,         \* React state ttsEnabled
    voiceGender,        \* React state voiceGender
    utterance,          \* what the speech engine is speaking, if anything
    resyncTimer,        \* the 400 ms timer of the effect on [baseIndex]
    chunkTimer,         \* the 50 ms timer set by onDone
    modeSwitchTimer,    \* the 50 ms timer of toggleTickerMode
    moveStartTimestamp, \* -1, or ms elapsed since moveStartTimestamp.value
    startPosition,      \* startPosition.value
    \* history, kept for the statement of properties only
    gestureStart,       \* the cursor when the gesture in progress started
    tickedMs,           \* ms of frame ticks since play was pressed (SpecRun)
    \* processBookText (src/unnamed/part_002)
    words,              \* the tokens of the text, each a sequence of characters
    chapters,           \* the chapter list returned, <<>> before the call
    \* HeadlinesRenderer.tsx, mounted in ticker mode
    lastWindowStart,    \* lastWindowStart.value
    windowStartWord,    \* React state windowStartWord
    windowWords,        \* number of words joined into windowText
    updatePending,      \* a runOnJS(updateWindow) call has not run yet
    postedCenter,       \* centerWord of the last call posted, while pending
    \* the book list (src/src/services/storage.ts, src/unnamed/part_000)
    storedBooks,        \* the list kept under KEYS.MY_BOOKS in AsyncStorage
    myBooks,            \* React state myBooks of the app context
    calls               \* the updateBookProgress and deleteBook calls made

vars == <<gestureStart, tickedMs, words, chapters, lastWindowStart,
          windowStartWord, windowWords, updatePending, postedCenter,
          contentLength, wpm, savedWpm, isTickerMode, baseIndex, progress,
          isInteracting, isManualTransition, waitTimer, targetIndex,
          startProgressRef, wasPlayingBeforeModeSwitch, animation, responder,
          isPlaying, ttsEnabled, voiceGender, utterance, resyncTimer,
          chunkTimer, modeSwitchTimer, moveStartTimestamp, startPosition,
          storedBooks, myBooks, calls>>

\* The text handed to processBookText and what it returns.
book == <<words, chapters>>
storage == <<storedBooks, myBooks, calls>>

\* The state of the ticker renderer.
window == <<lastWindowStart, windowStartWord, windowWords, updatePending,
            postedCenter>>

\* The variables ReaderScreen.tsx does not have.
narration == <<isPlaying, ttsEnabled, voiceGender, utterance, resyncTimer,
               chunkTimer, modeSwitchTimer, moveStartTimestamp,
               startPosition>>

\* ----------------------------------------------------------------- helpers
Abs(x) == IF x < 0 THEN -x ELSE x
Sign(x) == IF x < 0 THEN -1 ELSE IF x > 0 THEN 1 ELSE 0
Min(a, b) == IF a < b THEN a ELSE b
Max(a, b) == IF a > b THEN a ELSE b

\* Math.floor and Math.round of a cursor value, as a word index.
Floor(x) == x \div Word
Round(x) == (2 * x + Word) \div (2 * Word)

\* The largest cursor value the code clamps to: contentLength.value - 1.
LastWord == (contentLength - 1) * Word

\* notify: the animation has a completion callback.
NoAnimation ==
    [kind |-> "none", velocity |-> 0, toValue |-> 0, notify |-> FALSE]

\* The speech engine is silent.  An utterance is the chunk handed to
\* Speech.speak: its first word, its number of words, and the number of its
\* words the engine has reported a boundary for.
NoUtterance == [active |-> FALSE, startIndex |-> 0, words |-> 0, spoken |-> 0]

\* useAnimatedReaction(() => Math.round(progress.value), ...): the mirror is
\* updated when the rounded cursor changed and is further from the mirror
\* than the mode threshold.
SyncThreshold == IF isTickerMode THEN 50 ELSE 1
\* A reaction that already syncs at the threshold.
SyncedBaseAtThreshold(prev, next, base) ==
    IF Round(next) # Round(prev) /\ Abs(Round(next) - base) >= SyncThreshold
    THEN Round(next) ELSE base

SyncedBase(prev, next, base) ==
    IF Round(next) # Round(prev) /\ Abs(Round(next) - base) > SyncThreshold
    THEN Round(next) ELSE base

\* ------------------------------------------------------------------- Init
\* The screen as mounted at the saved position initialIndex.
Mounted(initialIndex) ==
    /\ storedBooks = <<>>
    /\ myBooks = <<>>
    /\ calls = <<>>
    /\ progress = initialIndex * Word
    /\ targetIndex = initialIndex
    /\ baseIndex = initialIndex
    /\ wpm = 0
    /\ savedWpm = DefaultWpm
    /\ isTickerMode = FALSE
    /\ isInteracting = FALSE
    /\ isManualTransition = FALSE
    /\ waitTimer = 0
    /\ startProgressRef = 0
    /\ wasPlayingBeforeModeSwitch = FALSE
    /\ animation = NoAnimation
    /\ responder = "none"
    /\ isPlaying = FALSE
    /\ ttsEnabled = FALSE
    /\ voiceGender = "Female"
    /\ utterance = NoUtterance
    /\ resyncTimer = FALSE
    /\ chunkTimer = FALSE
    /\ modeSwitchTimer = "none"
    /\ moveStartTimestamp = -1
    /\ startPosition = 0
    /\ gestureStart = 0
    /\ tickedMs = 0
    /\ lastWindowStart = 0
    /\ windowStartWord = 0
    /\ windowWords = 0
    /\ updatePending = FALSE
    /\ postedCenter = 0

\* The reader reads content.length only: its specifications leave the
\* tokens out.
NoBook == words = <<>> /\ chapters = <<>>

Init ==
    /\ NoBook
    /\ contentLength \in 0..MaxWords
    /\ \E initialIndex \in 0..Max(0, contentLength - 1) : Mounted(initialIndex)

\* ------------------------------------------------------ HeadlinesRenderer
\* const WINDOW_WORDS = 400; const WINDOW_BACK = 150
WindowWords == 400
WindowBack == 150

\* A start that is not kept inside the stream.
WindowStartUnclamped(centerWord) == centerWord - WindowBack

\* updateWindow(centerWord): start and end of the slice that is rendered.
WindowStart(centerWord) == Max(0, centerWord - WindowBack)
WindowEnd(centerWord) == Min(contentLength, WindowStart(centerWord) + WindowWords)

\* What the renderer holds once the writes of a handler are rendered.  The
\* renderer is mounted while isTickerMode: at its mount the effect on
\* [content.length] calls updateWindow(0) when there is content, and the
\* animated reaction runs for the first time.  The reaction runs again for
\* every new value of progress: outside the safe part of the window it posts
\* updateWindow(idx) to the JS thread and moves lastWindowStart at once.
\* The posted calls run in order and each one replaces the window, so that
\* the last one decides: postedCenter is its argument.
HeadlinesRendered ==
    IF ~isTickerMode'
    THEN /\ lastWindowStart' = 0
         /\ windowStartWord' = 0
         /\ windowWords' = 0
         /\ updatePending' = FALSE
         /\ postedCenter' = 0
    ELSE LET mounting == ~isTickerMode
             start == IF mounting THEN 0 ELSE lastWindowStart
             end == start + WindowWords
             idx == Floor(progress')
             outside == \/ 2 * idx < 2 * start + WindowBack
                        \/ 2 * idx > 2 * end - WindowBack
             posts == (mounting \/ progress' # progress) /\ outside
         IN  /\ lastWindowStart' = IF posts THEN Max(0, idx - WindowBack)
                                   ELSE start
             /\ updatePending' = (posts \/ (~mounting /\ updatePending))
             /\ postedCenter' = IF posts THEN idx
                                ELSE IF mounting THEN 0 ELSE postedCenter
             /\ windowStartWord' = IF mounting THEN 0 ELSE windowStartWord
             /\ windowWords' =
                   IF ~mounting THEN windowWords
                   ELSE IF contentLength = 0 THEN 0
                   ELSE Max(0, WindowEnd(0) - WindowStart(0))

\* A posted updateWindow call runs on the JS thread.
updateWindow ==
    /\ updatePending
    /\ updatePending' = FALSE
    /\ postedCenter' = 0
    /\ IF contentLength = 0
       THEN UNCHANGED <<windowStartWord, windowWords>>
       ELSE /\ windowStartWord' = WindowStart(postedCenter)
            /\ windowWords' =
                  Max(0, WindowEnd(postedCenter) - WindowStart(postedCenter))
    /\ UNCHANGED <<lastWindowStart, book, narration, gestureStart, tickedMs>>
    /\ UNCHANGED storage
    /\ UNCHANGED <<contentLength, wpm, savedWpm, isTickerMode, baseIndex,
                   progress, isInteracting, isManualTransition, waitTimer,
                   targetIndex, startProgressRef, wasPlayingBeforeModeSwitch,
                   animation, responder>>

\* -------------------------------------------------- animations on progress
\* snapToNearest(): progress.value = withTiming(Math.round(progress.value)).
\* Assigning an animation replaces (cancels) the one that was running.
snapToNearest(from) ==
    [kind |-> "timing", velocity |-> 0, toValue |-> Round(from),
     notify |-> TRUE]

withDecay(velocity) ==
    [kind |-> "decay", velocity |-> velocity, toValue |-> 0, notify |-> TRUE]

\* ---------------------------------------------------------- frame callback
\* frameInfo.timeSincePreviousFrame || 16
FrameMs(t) == IF t = 0 THEN DefaultFrameMs ELSE t

\* A ticker branch that advances by a fixed frame time whatever dt is.
TickerTickFixedStep(t) ==
    LET increment == wpm * DefaultFrameMs
        raised == IF progress + increment < 0 THEN 0 ELSE progress + increment
        atEnd == raised >= LastWord
        next == IF atEnd THEN LastWord ELSE raised
    IN  /\ progress' = next
        /\ wpm' = IF atEnd THEN 0 ELSE wpm
        /\ targetIndex' = Floor(next)
        /\ baseIndex' = SyncedBase(progress, next, baseIndex)
        /\ UNCHANGED waitTimer

\* Ticker branch: progress += (wpm / 60000) * min(dt, 50), clamped.
TickerTick(t) ==
    LET safeDt == Min(FrameMs(t), MaxFrameMs)
        increment == wpm * safeDt
        raised == IF progress + increment < 0 THEN 0 ELSE progress + increment
        atEnd == raised >= LastWord
        next == IF atEnd THEN LastWord ELSE raised
    IN  /\ progress' = next
        /\ wpm' = IF atEnd THEN 0 ELSE wpm
        /\ targetIndex' = Floor(next)
        /\ baseIndex' = SyncedBase(progress, next, baseIndex)
        /\ UNCHANGED waitTimer

\* RSVP branch: hold the target while waitTimer < 60000 / wpm, else advance.
RsvpTick(t) ==
    LET waiting == waitTimer * (IF wpm = 0 THEN DefaultWpm ELSE wpm) < MsPerMinute
        target == IF waiting THEN targetIndex ELSE targetIndex + 1
    IN  /\ target <= contentLength + MaxOverrun
        /\ targetIndex' = target
        /\ progress' = target * Word
        /\ waitTimer' = IF waiting THEN waitTimer + FrameMs(t) ELSE 0
        /\ wpm' = IF ~waiting /\ target >= contentLength THEN 0 ELSE wpm
        /\ baseIndex' = SyncedBase(progress, target * Word, baseIndex)

\* useFrameCallback: nothing happens while paused or interacting.  A write to
\* progress.value drops the animation that was attached to it.
useFrameCallback(t) ==
    /\ UNCHANGED tickedMs
    /\ UNCHANGED book
    /\ UNCHANGED storage
    /\ UNCHANGED gestureStart
    /\ UNCHANGED narration
    /\ wpm # 0
    /\ ~isInteracting
    /\ IF isTickerMode THEN TickerTick(t) ELSE RsvpTick(t)
    /\ animation' = NoAnimation
    /\ UNCHANGED <<contentLength, savedWpm, isTickerMode, isInteracting,
                   isManualTransition, startProgressRef,
                   wasPlayingBeforeModeSwitch, responder>>
    /\ HeadlinesRendered

\* --------------------------------------------- ReaderScreen's PanResponder
\* startProgressRef.current is written by onPanResponderGrant and read only by
\* onPanResponderMove of the same gesture.  Once the gesture has ended the
\* value is dead; it is put back to 0 so that two states are not told apart
\* by a number no handler reads.
onPanResponderGrant ==
    /\ UNCHANGED tickedMs
    /\ UNCHANGED book
    /\ UNCHANGED storage
    /\ gestureStart' = progress
    /\ UNCHANGED narration
    /\ responder = "none"
    /\ responder' = "screen"
    /\ isInteracting' = TRUE
    /\ wpm' = 0
    /\ animation' = NoAnimation
    /\ startProgressRef' = progress
    /\ UNCHANGED <<contentLength, savedWpm, isTickerMode, baseIndex, progress,
                   isManualTransition, waitTimer, targetIndex,
                   wasPlayingBeforeModeSwitch>>
    /\ HeadlinesRendered

\* delta = -d * sensitivity (column) or -d * sensitivity * 0.2 (ticker).
DragDelta(d) ==
    IF isTickerMode THEN (-d * Word) \div (SensitivityDiv * TickerDiv)
                    ELSE (-d * Word) \div SensitivityDiv

DragValue(d) ==
    LET newVal == startProgressRef + DragDelta(d)
        raised == IF newVal < 0 THEN 0 ELSE newVal
    IN  IF raised > LastWord THEN LastWord ELSE raised

onPanResponderMove(d) ==
    /\ UNCHANGED tickedMs
    /\ UNCHANGED book
    /\ UNCHANGED storage
    /\ UNCHANGED gestureStart
    /\ UNCHANGED narration
    /\ responder = "screen"
    /\ progress' = DragValue(d)
    /\ baseIndex' = SyncedBase(progress, DragValue(d), baseIndex)
    /\ animation' = NoAnimation
    /\ UNCHANGED <<contentLength, wpm, savedWpm, isTickerMode, isInteracting,
                   isManualTransition, waitTimer, targetIndex, startProgressRef,
                   wasPlayingBeforeModeSwitch, responder>>
    /\ HeadlinesRendered

onPanResponderRelease(velocity) ==
    /\ UNCHANGED tickedMs
    /\ UNCHANGED book
    /\ UNCHANGED storage
    /\ gestureStart' = 0
    /\ UNCHANGED narration
    /\ responder = "screen"
    /\ responder' = "none"
    /\ animation' = IF Abs(velocity) < SnapVelocity
                    THEN snapToNearest(progress)
                    ELSE withDecay(velocity)
    /\ targetIndex' = Round(progress)
    /\ baseIndex' = Round(progress)
    /\ startProgressRef' = 0
    /\ UNCHANGED <<contentLength, wpm, savedWpm, isTickerMode, progress,
                   isInteracting, isManualTransition, waitTimer,
                   wasPlayingBeforeModeSwitch>>
    /\ HeadlinesRendered

onPanResponderTerminate ==
    /\ UNCHANGED tickedMs
    /\ UNCHANGED book
    /\ UNCHANGED storage
    /\ gestureStart' = 0
    /\ UNCHANGED narration
    /\ responder = "screen"
    /\ responder' = "none"
    /\ isInteracting' = FALSE
    /\ animation' = snapToNearest(progress)
    /\ startProgressRef' = 0
    /\ UNCHANGED <<contentLength, wpm, savedWpm, isTickerMode, baseIndex,
                   progress, isManualTransition, waitTimer, targetIndex,
                   wasPlayingBeforeModeSwitch>>
    /\ HeadlinesRendered

\* ------------------------------------------------------- animation frames
\* The withTiming animation started by snapToNearest reaches its value: the
\* completion callback runs with finished = true.
TimingFinished ==
    /\ UNCHANGED tickedMs
    /\ UNCHANGED book
    /\ UNCHANGED storage
    /\ UNCHANGED gestureStart
    /\ UNCHANGED narration
    /\ animation.kind = "timing"
    /\ progress' = animation.toValue * Word
    /\ isInteracting' = FALSE
    /\ baseIndex' = animation.toValue
    /\ targetIndex' = animation.toValue
    /\ animation' = NoAnimation
    /\ UNCHANGED <<contentLength, wpm, savedWpm, isTickerMode,
                   isManualTransition, waitTimer, startProgressRef,
                   wasPlayingBeforeModeSwitch, responder>>
    /\ HeadlinesRendered

\* One frame of withDecay({velocity, clamp: [0, contentLength - 1],
\* deceleration: 0.992}): the velocity shrinks, the cursor moves, and the
\* animation finishes at a clamp bound or below the velocity threshold; the
\* completion callback then calls snapToNearest.
Decelerated(v) == Sign(v) * ((Abs(v) * Deceleration) \div 1000)
DecayAdvance(v) == v * (Word \div 4)

DecayFrame ==
    /\ UNCHANGED tickedMs
    /\ UNCHANGED book
    /\ UNCHANGED storage
    /\ UNCHANGED gestureStart
    /\ UNCHANGED narration
    /\ animation.kind = "decay"
    /\ LET v == Decelerated(animation.velocity)
           moved == progress + DecayAdvance(v)
           hitLow == animation.velocity < 0 /\ moved <= 0
           hitHigh == animation.velocity > 0 /\ moved >= LastWord
           next == IF hitLow THEN 0 ELSE IF hitHigh THEN LastWord ELSE moved
           finished == hitLow \/ hitHigh \/ Abs(v) < SnapVelocity
       IN  /\ progress' = next
           /\ baseIndex' = SyncedBase(progress, next, baseIndex)
           /\ animation' = IF finished THEN snapToNearest(next)
                           ELSE [animation EXCEPT !.velocity = v]
    /\ UNCHANGED <<contentLength, wpm, savedWpm, isTickerMode, isInteracting,
                   isManualTransition, waitTimer, targetIndex, startProgressRef,
                   wasPlayingBeforeModeSwitch, responder>>
    /\ HeadlinesRendered

\* ---------------------------------------- HeadlinesRenderer's PanResponder
\* The renderer is mounted in ticker mode only, inside the view that carries
\* ReaderScreen's responder; a touch is granted to one of the two.
HeadlinesGrant ==
    /\ UNCHANGED tickedMs
    /\ UNCHANGED book
    /\ UNCHANGED storage
    /\ gestureStart' = progress
    /\ UNCHANGED narration
    /\ isTickerMode
    /\ responder = "none"
    /\ responder' = "headlines"
    /\ isInteracting' = TRUE
    /\ UNCHANGED <<contentLength, wpm, savedWpm, isTickerMode, baseIndex,
                   progress, isManualTransition, waitTimer, targetIndex,
                   startProgressRef, wasPlayingBeforeModeSwitch, animation>>
    /\ HeadlinesRendered

\* deltaChars = -dx / charWidth, charWidth = fontSize * CHAR_W_MULTIPLIER.
HeadlinesValue(dx) ==
    LET deltaChars == (-dx * Word * 100) \div (FontSize * CharWidthPercent)
    IN  Max(0, Min(progress + deltaChars, LastWord))

\* onScroll(Math.floor(newProgress)) sets baseIndex and targetIndex.
HeadlinesMove(dx) ==
    /\ UNCHANGED tickedMs
    /\ UNCHANGED book
    /\ UNCHANGED storage
    /\ UNCHANGED gestureStart
    /\ UNCHANGED narration
    /\ responder = "headlines"
    /\ progress' = HeadlinesValue(dx)
    /\ baseIndex' = Floor(HeadlinesValue(dx))
    /\ targetIndex' = Floor(HeadlinesValue(dx))
    /\ animation' = NoAnimation
    /\ UNCHANGED <<contentLength, wpm, savedWpm, isTickerMode, isInteracting,
                   isManualTransition, waitTimer, startProgressRef,
                   wasPlayingBeforeModeSwitch, responder>>
    /\ HeadlinesRendered

\* onPanResponderRelease and onPanResponderTerminate have the same body.
HeadlinesEnd ==
    /\ UNCHANGED tickedMs
    /\ UNCHANGED book
    /\ UNCHANGED storage
    /\ gestureStart' = 0
    /\ UNCHANGED narration
    /\ isInteracting' = FALSE
    /\ baseIndex' = Floor(progress)
    /\ targetIndex' = Floor(progress)
    /\ responder' = "none"
    /\ UNCHANGED <<contentLength, wpm, savedWpm, isTickerMode, progress,
                   isManualTransition, waitTimer, startProgressRef,
                   wasPlayingBeforeModeSwitch, animation>>
    /\ HeadlinesRendered

HeadlinesRelease ==
    /\ responder = "headlines"
    /\ HeadlinesEnd

HeadlinesTerminate ==
    /\ responder = "headlines"
    /\ HeadlinesEnd

\* ------------------------------------------------------------ UI controls
\* The controls are pressed while no responder holds a touch.
togglePlay ==
    /\ UNCHANGED tickedMs
    /\ UNCHANGED book
    /\ UNCHANGED storage
    /\ UNCHANGED gestureStart
    /\ UNCHANGED narration
    /\ responder = "none"
    /\ wpm' = IF wpm > 0 THEN 0
              ELSE IF savedWpm > 0 THEN savedWpm ELSE DefaultWpm
    /\ UNCHANGED <<contentLength, savedWpm, isTickerMode, baseIndex, progress,
                   isInteracting, isManualTransition, waitTimer, targetIndex,
                   startProgressRef, wasPlayingBeforeModeSwitch, animation,
                   responder>>
    /\ HeadlinesRendered

\* toggleTickerMode, followed by the effect on [isTickerMode] that restores
\* the rate when it was playing before the switch and is now paused.
toggleTickerMode ==
    /\ UNCHANGED tickedMs
    /\ UNCHANGED book
    /\ UNCHANGED storage
    /\ UNCHANGED gestureStart
    /\ UNCHANGED narration
    /\ responder = "none"
    /\ isTickerMode' = ~isTickerMode
    /\ LET wasPlaying == wpm > 0
           restore == wasPlaying /\ wpm = 0
       IN  /\ wpm' = IF restore
                     THEN (IF savedWpm > 0 THEN savedWpm ELSE DefaultWpm)
                     ELSE wpm
           /\ wasPlayingBeforeModeSwitch' = IF restore THEN FALSE ELSE wasPlaying
    /\ UNCHANGED <<contentLength, savedWpm, baseIndex, progress, isInteracting,
                   isManualTransition, waitTimer, targetIndex, startProgressRef,
                   animation, responder>>
    /\ HeadlinesRendered

\* The arrows are rendered in column mode only.  direction: 1 down, -1 up.
ArrowTarget(direction) ==
    LET next == Round(progress) + direction
        raised == IF next < 0 THEN 0 ELSE next
    IN  IF raised >= contentLength THEN contentLength - 1 ELSE raised

onArrowClick(direction) ==
    /\ UNCHANGED tickedMs
    /\ UNCHANGED book
    /\ UNCHANGED storage
    /\ UNCHANGED gestureStart
    /\ UNCHANGED narration
    /\ responder = "none"
    /\ ~isTickerMode
    /\ wpm' = 0
    /\ IF ArrowTarget(direction) # Round(progress)
       THEN /\ targetIndex' = ArrowTarget(direction)
            /\ isManualTransition' = TRUE
       ELSE UNCHANGED <<targetIndex, isManualTransition>>
    /\ UNCHANGED <<contentLength, savedWpm, isTickerMode, baseIndex, progress,
                   isInteracting, waitTimer, startProgressRef,
                   wasPlayingBeforeModeSwitch, animation, responder>>
    /\ HeadlinesRendered

\* Markers carry word indices of the stream; an empty stream has the default
\* marker at 0.
ChapterIndices == 0..Max(0, contentLength - 1)

\* cancelAnimation(progress) ends the animation with finished = false, so
\* its completion callback changes nothing.
jumpToChapter(index) ==
    /\ UNCHANGED tickedMs
    /\ UNCHANGED book
    /\ UNCHANGED storage
    /\ UNCHANGED gestureStart
    /\ UNCHANGED narration
    /\ responder = "none"
    /\ wpm' = 0
    /\ animation' = NoAnimation
    /\ progress' = index * Word
    /\ targetIndex' = index
    /\ baseIndex' = index
    /\ UNCHANGED <<contentLength, savedWpm, isTickerMode, isInteracting,
                   isManualTransition, waitTimer, startProgressRef,
                   wasPlayingBeforeModeSwitch, responder>>
    /\ HeadlinesRendered

\* Position slider, minimumValue 0, maximumValue content.length - 1: whole
\* and half positions.
SeekValues ==
    {0} \cup {k * Word : k \in 0..(contentLength - 1)}
        \cup {k * Word + Word \div 2 : k \in 0..(contentLength - 2)}

\* A seek that takes the nearest word.
SeekTargetRounded(val) == Max(0, Min(Round(val), contentLength - 1))

SeekTarget(val) == Max(0, Min(Floor(val), contentLength - 1))

\* Writing a number to progress.value drops the running animation; its
\* callback is not run with finished = true.
seek(val) ==
    /\ UNCHANGED tickedMs
    /\ UNCHANGED book
    /\ UNCHANGED storage
    /\ UNCHANGED gestureStart
    /\ UNCHANGED narration
    /\ responder = "none"
    /\ wpm' = 0
    /\ progress' = SeekTarget(val) * Word
    /\ targetIndex' = SeekTarget(val)
    /\ baseIndex' = SeekTarget(val)
    /\ animation' = NoAnimation
    /\ UNCHANGED <<contentLength, savedWpm, isTickerMode, isInteracting,
                   isManualTransition, waitTimer, startProgressRef,
                   wasPlayingBeforeModeSwitch, responder>>
    /\ HeadlinesRendered

\* A rate slider that sets the running rate whether or not it is playing.
setRateAlwaysLive(val) ==
    /\ UNCHANGED tickedMs
    /\ UNCHANGED book
    /\ UNCHANGED storage
    /\ UNCHANGED gestureStart
    /\ UNCHANGED narration
    /\ responder = "none"
    /\ wpm' = val
    /\ savedWpm' = val
    /\ UNCHANGED <<contentLength, isTickerMode, baseIndex, progress,
                   isInteracting, isManualTransition, waitTimer, targetIndex,
                   startProgressRef, wasPlayingBeforeModeSwitch, animation,
                   responder>>
    /\ HeadlinesRendered

\* Rate slider: the running rate follows the slider, the saved rate always.
setRate(val) ==
    /\ UNCHANGED tickedMs
    /\ UNCHANGED book
    /\ UNCHANGED storage
    /\ UNCHANGED gestureStart
    /\ UNCHANGED narration
    /\ responder = "none"
    /\ wpm' = IF wpm > 0 THEN val ELSE wpm
    /\ savedWpm' = val
    /\ UNCHANGED <<contentLength, isTickerMode, baseIndex, progress,
                   isInteracting, isManualTransition, waitTimer, targetIndex,
                   startProgressRef, wasPlayingBeforeModeSwitch, animation,
                   responder>>
    /\ HeadlinesRendered

\* ------------------------------------------------------------------- Next
Next ==
    \/ \E t \in FrameTimes : useFrameCallback(t)
    \/ onPanResponderGrant
    \/ \E d \in Translations : onPanResponderMove(d)
    \/ \E v \in Velocities : onPanResponderRelease(v)
    \/ onPanResponderTerminate
    \/ TimingFinished
    \/ DecayFrame
    \/ HeadlinesGrant
    \/ \E dx \in TickerTranslations : HeadlinesMove(dx)
    \/ HeadlinesRelease
    \/ HeadlinesTerminate
    \/ togglePlay
    \/ toggleTickerMode
    \/ \E direction \in {-1, 1} : onArrowClick(direction)
    \/ \E val \in SeekValues : seek(val)
    \/ \E index \in ChapterIndices : jumpToChapter(index)
    \/ \E val \in Rates : setRate(val)
    \/ updateWindow

Spec == Init /\ [][Next]_vars

\* ==================================================== narrating ReaderScreen
\* SpecTts models the ReaderScreen of src/unnamed/part_003, which drives the
\* cursor from speech boundary events as well.  It has isPlaying, a manual
\* transition in the frame callback, and no HeadlinesRenderer.

\* The words of the narrated stream, two and three characters long in turn.
StreamWord(i) == IF i % 2 = 0 THEN <<"a", "b">> ELSE <<"a", "b", "c">>
\* Voice genders of the voice menu.
Genders == {"Female", "Male"}
\* timeSincePreviousFrame values handed to the frame callback, in ms.
TtsFrameTimes == {200}

\* const chunkSize = 100
ChunkSize == 100
\* const duration = 160
TransitionMs == 160

\* diff > (isTickerMode ? 20 : 2)
TtsSyncThreshold == IF isTickerMode THEN 20 ELSE 2
TtsSyncedBase(prev, next, base) ==
    IF Round(next) # Round(prev) /\ Abs(Round(next) - base) > TtsSyncThreshold
    THEN Round(next) ELSE base

\* Effect on [baseIndex]: the cleanup clears the pending timer, and a new one
\* is set when narration is enabled and no gesture is interacting.
ResyncAfter(base, enabled, interacting) ==
    IF base # baseIndex THEN enabled /\ ~interacting ELSE resyncTimer

\* Array.prototype.join(" "), the two halves of the array joined in turn.
RECURSIVE Join(_)
Join(ws) ==
    IF ws = <<>> THEN <<>>
    ELSE IF Len(ws) = 1 THEN ws[1]
    ELSE Join(SubSeq(ws, 1, Len(ws) \div 2))
             \o <<" ">> \o Join(SubSeq(ws, Len(ws) \div 2 + 1, Len(ws)))

\* content.slice(startIndex, startIndex + chunkSize).join(" ")
TextToRead(u) ==
    Join(SubSeq(words, u.startIndex + 1, u.startIndex + u.words))

TextLength(u) == Len(TextToRead(u))

\* text.substring(0, end)
Substring(text, end) == SubSeq(text, 1, Min(Max(end, 0), Len(text)))

\* text.split(/\s+/).length: one piece more than the text has runs of white
\* space, a run at either end included.
WhiteSpace == {" "}
SplitLength(text) ==
    1 + Cardinality({p \in 1..Len(text) :
                        /\ text[p] \in WhiteSpace
                        /\ p = 1 \/ text[p - 1] \notin WhiteSpace})

\* The number of pieces itself, the last one counted too.
WordOffsetCountingPieces(u, charIndex) ==
    SplitLength(Substring(TextToRead(u), charIndex))

\* textToRead.substring(0, ev.charIndex).split(/\s+/).length - 1
WordOffset(u, charIndex) ==
    SplitLength(Substring(TextToRead(u), charIndex)) - 1

\* startSpeaking(), called from a closure in which ttsEnabled was `enabled`:
\* the utterance the speech engine holds afterwards.
startSpeaking(enabled, current) ==
    IF contentLength = 0 \/ ~enabled THEN NoUtterance
    ELSE IF Round(progress) >= contentLength THEN current
    ELSE [active |-> TRUE, startIndex |-> Round(progress),
          words |-> Min(ChunkSize, contentLength - Round(progress)),
          spoken |-> 0]

\* waitTimer and targetIndex are read by the frame callback only while the
\* clock runs or a manual transition is under way, and both are written when
\* either starts; moveStartTimestamp and startPosition are read only during a
\* manual transition.  Outside these windows the values are dead.  They are
\* put back to their initial values, so that two states are not told apart
\* by a number no handler reads.
LiveTarget(value, playing, transition) ==
    IF playing \/ transition THEN value ELSE 0

\* -------------------------------------------- frame callback of part_003
\* Ticker branch: progress += (wpm / 60000) * dt, stopped at contentLength.
\* A restarted clock moves the cursor past the end again; it is explored up
\* to contentLength + MaxOverrun.
tts_TickerTick(t) ==
    LET next == progress + wpm * FrameMs(t)
        atEnd == next >= contentLength * Word
    IN  /\ next <= (contentLength + MaxOverrun) * Word
        /\ progress' = next
        /\ targetIndex' = LiveTarget(Floor(next), ~atEnd, FALSE)
        /\ isPlaying' = ~atEnd
        /\ wpm' = IF atEnd THEN 0 ELSE wpm
        /\ waitTimer' = IF atEnd THEN 0 ELSE waitTimer

tts_RsvpTick(t) ==
    LET caught == IF targetIndex < Floor(progress) THEN Floor(progress) + 1
                  ELSE targetIndex
        waiting == wpm = 0 \/ waitTimer * wpm < MsPerMinute
        target == IF waiting THEN caught ELSE caught + 1
        atEnd == ~waiting /\ target >= contentLength
    IN  /\ target <= contentLength + MaxOverrun
        /\ targetIndex' = LiveTarget(target, ~atEnd, FALSE)
        /\ progress' = target * Word
        /\ waitTimer' = IF waiting THEN waitTimer + FrameMs(t) ELSE 0
        /\ isPlaying' = ~atEnd
        /\ wpm' = IF atEnd THEN 0 ELSE wpm

\* easedT = -(cos(pi * t) - 1) / 2 with t = elapsed / duration, as the
\* fraction EasedNum(elapsed) / EasedDen.  The cosine is replaced by the
\* cubic 3t^2 - 2t^3, which agrees with it at t = 0, 1/2 and 1; times are
\* taken in steps of EaseStepMs to keep the products small.
EaseStepMs == TransitionMs \div 8
EaseSteps == TransitionMs \div EaseStepMs
EasedDen == EaseSteps * EaseSteps * EaseSteps
EasedNum(elapsed) ==
    LET e == elapsed \div EaseStepMs
    IN  3 * e * e * EaseSteps - 2 * e * e * e

\* Manual transition started by an arrow: the first frame records its
\* timestamp and the cursor, later frames ease towards targetIndex.
tts_ManualFrame(t) ==
    LET started == moveStartTimestamp # -1
        elapsed == IF started THEN moveStartTimestamp + FrameMs(t) ELSE 0
        from == IF started THEN startPosition ELSE progress
        arrived == elapsed >= TransitionMs
    IN  /\ startPosition' = IF arrived THEN 0 ELSE from
        /\ moveStartTimestamp' = IF arrived THEN -1 ELSE elapsed
        /\ isManualTransition' = ~arrived
        /\ progress' =
              IF arrived THEN targetIndex * Word
              ELSE from + ((targetIndex * Word - from) * EasedNum(elapsed))
                              \div EasedDen

tts_useFrameCallback(t) ==
    /\ UNCHANGED tickedMs
    /\ UNCHANGED book
    /\ UNCHANGED storage
    /\ UNCHANGED chunkTimer
    /\ UNCHANGED gestureStart
    /\ ~isInteracting
    /\ \/ /\ isPlaying
          /\ IF isTickerMode THEN tts_TickerTick(t) ELSE tts_RsvpTick(t)
          /\ UNCHANGED <<isManualTransition, moveStartTimestamp, startPosition>>
       \/ /\ ~isPlaying
          /\ isManualTransition
          /\ tts_ManualFrame(t)
          /\ targetIndex' = LiveTarget(targetIndex, FALSE, isManualTransition')
          /\ UNCHANGED <<wpm, isPlaying, waitTimer>>
    /\ animation' = NoAnimation
    /\ baseIndex' = TtsSyncedBase(progress, progress', baseIndex)
    /\ resyncTimer' = ResyncAfter(baseIndex', ttsEnabled, FALSE)
    /\ UNCHANGED <<contentLength, savedWpm, isTickerMode, isInteracting,
                   startProgressRef, wasPlayingBeforeModeSwitch, responder,
                   ttsEnabled, voiceGender, utterance, modeSwitchTimer>>
    /\ HeadlinesRendered

\* ------------------------------------------------ PanResponder of part_003
tts_onPanResponderGrant ==
    /\ UNCHANGED tickedMs
    /\ UNCHANGED book
    /\ UNCHANGED storage
    /\ UNCHANGED chunkTimer
    /\ UNCHANGED gestureStart
    /\ responder = "none"
    /\ responder' = "screen"
    /\ isInteracting' = TRUE
    /\ isPlaying' = FALSE
    /\ isManualTransition' = FALSE
    /\ wpm' = 0
    /\ animation' = NoAnimation
    /\ startProgressRef' = progress
    /\ waitTimer' = 0
    /\ targetIndex' = 0
    /\ moveStartTimestamp' = -1
    /\ startPosition' = 0
    /\ UNCHANGED <<contentLength, savedWpm, isTickerMode, baseIndex, progress,
                   wasPlayingBeforeModeSwitch, ttsEnabled, voiceGender,
                   utterance, resyncTimer, modeSwitchTimer>>
    /\ HeadlinesRendered

tts_onPanResponderMove(d) ==
    /\ UNCHANGED tickedMs
    /\ UNCHANGED book
    /\ UNCHANGED storage
    /\ UNCHANGED chunkTimer
    /\ UNCHANGED gestureStart
    /\ responder = "screen"
    /\ progress' = DragValue(d)
    /\ baseIndex' = TtsSyncedBase(progress, DragValue(d), baseIndex)
    /\ resyncTimer' = ResyncAfter(baseIndex', ttsEnabled, isInteracting)
    /\ animation' = NoAnimation
    /\ UNCHANGED <<contentLength, wpm, savedWpm, isTickerMode, isInteracting,
                   isManualTransition, waitTimer, targetIndex, startProgressRef,
                   wasPlayingBeforeModeSwitch, responder, isPlaying,
                   ttsEnabled, voiceGender, utterance, modeSwitchTimer,
                   moveStartTimestamp, startPosition>>
    /\ HeadlinesRendered

\* Release starts the snap or the decay and synchronises nothing.
tts_onPanResponderRelease(velocity) ==
    /\ UNCHANGED tickedMs
    /\ UNCHANGED book
    /\ UNCHANGED storage
    /\ UNCHANGED chunkTimer
    /\ UNCHANGED gestureStart
    /\ responder = "screen"
    /\ responder' = "none"
    /\ animation' = IF Abs(velocity) < SnapVelocity
                    THEN snapToNearest(progress)
                    ELSE withDecay(velocity)
    /\ startProgressRef' = 0
    /\ UNCHANGED <<contentLength, wpm, savedWpm, isTickerMode, baseIndex,
                   progress, isInteracting, isManualTransition, waitTimer,
                   targetIndex, wasPlayingBeforeModeSwitch, narration>>
    /\ HeadlinesRendered

tts_onPanResponderTerminate ==
    /\ UNCHANGED tickedMs
    /\ UNCHANGED book
    /\ UNCHANGED storage
    /\ UNCHANGED chunkTimer
    /\ UNCHANGED gestureStart
    /\ responder = "screen"
    /\ responder' = "none"
    /\ isInteracting' = FALSE
    /\ animation' = snapToNearest(progress)
    /\ startProgressRef' = 0
    /\ UNCHANGED <<contentLength, wpm, savedWpm, isTickerMode, baseIndex,
                   progress, isManualTransition, waitTimer, targetIndex,
                   wasPlayingBeforeModeSwitch, narration>>
    /\ HeadlinesRendered

\* A withTiming animation reaches its value.  snapToNearest's callback clears
\* isInteracting; pauseReader's animation has no callback.
tts_TimingFinished ==
    /\ UNCHANGED tickedMs
    /\ UNCHANGED book
    /\ UNCHANGED storage
    /\ UNCHANGED chunkTimer
    /\ UNCHANGED gestureStart
    /\ animation.kind = "timing"
    /\ progress' = animation.toValue * Word
    /\ isInteracting' = IF animation.notify THEN FALSE ELSE isInteracting
    /\ animation' = NoAnimation
    /\ baseIndex' = TtsSyncedBase(progress, progress', baseIndex)
    /\ resyncTimer' = ResyncAfter(baseIndex', ttsEnabled, isInteracting')
    /\ UNCHANGED <<contentLength, wpm, savedWpm, isTickerMode,
                   isManualTransition, waitTimer, targetIndex, startProgressRef,
                   wasPlayingBeforeModeSwitch, responder, isPlaying,
                   ttsEnabled, voiceGender, utterance, modeSwitchTimer,
                   moveStartTimestamp, startPosition>>
    /\ HeadlinesRendered

tts_DecayFrame ==
    /\ UNCHANGED tickedMs
    /\ UNCHANGED book
    /\ UNCHANGED storage
    /\ UNCHANGED chunkTimer
    /\ UNCHANGED gestureStart
    /\ animation.kind = "decay"
    /\ LET v == Decelerated(animation.velocity)
           moved == progress + DecayAdvance(v)
           hitLow == animation.velocity < 0 /\ moved <= 0
           hitHigh == animation.velocity > 0 /\ moved >= LastWord
           next == IF hitLow THEN 0 ELSE IF hitHigh THEN LastWord ELSE moved
           finished == hitLow \/ hitHigh \/ Abs(v) < SnapVelocity
       IN  /\ progress' = next
           /\ baseIndex' = TtsSyncedBase(progress, next, baseIndex)
           /\ animation' = IF finished THEN snapToNearest(next)
                           ELSE [animation EXCEPT !.velocity = v]
    /\ resyncTimer' = ResyncAfter(baseIndex', ttsEnabled, isInteracting)
    /\ UNCHANGED <<contentLength, wpm, savedWpm, isTickerMode, isInteracting,
                   isManualTransition, waitTimer, targetIndex, startProgressRef,
                   wasPlayingBeforeModeSwitch, responder, isPlaying,
                   ttsEnabled, voiceGender, utterance, modeSwitchTimer,
                   moveStartTimestamp, startPosition>>
    /\ HeadlinesRendered

\* ------------------------------------------------- UI controls of part_003
\* Pause is pauseReader(): the cursor is animated to the nearest word by an
\* animation without completion callback.  Play starts the clock.
tts_togglePlay ==
    /\ UNCHANGED tickedMs
    /\ UNCHANGED book
    /\ UNCHANGED storage
    /\ UNCHANGED chunkTimer
    /\ UNCHANGED gestureStart
    /\ responder = "none"
    /\ IF wpm > 0
       THEN /\ wpm' = 0
            /\ isPlaying' = FALSE
            /\ animation' = [kind |-> "timing", velocity |-> 0,
                             toValue |-> Round(progress), notify |-> FALSE]
            /\ targetIndex' = 0
            /\ waitTimer' = 0
       ELSE /\ wpm' = savedWpm
            /\ isPlaying' = TRUE
            /\ targetIndex' = Floor(progress)
            /\ waitTimer' = 0
            /\ UNCHANGED animation
    /\ isManualTransition' = FALSE
    /\ moveStartTimestamp' = -1
    /\ startPosition' = 0
    /\ UNCHANGED <<contentLength, savedWpm, isTickerMode, baseIndex, progress,
                   isInteracting, startProgressRef, wasPlayingBeforeModeSwitch,
                   responder, ttsEnabled, voiceGender, utterance, resyncTimer,
                   modeSwitchTimer>>
    /\ HeadlinesRendered

\* toggleTickerMode stops speech and autoplay, snaps the cursor and arms the
\* 50 ms timer that switches to the mode opposite to the one rendered now.
tts_toggleTickerMode ==
    /\ UNCHANGED tickedMs
    /\ UNCHANGED book
    /\ UNCHANGED storage
    /\ UNCHANGED chunkTimer
    /\ UNCHANGED gestureStart
    /\ responder = "none"
    /\ utterance' = NoUtterance
    /\ ttsEnabled' = FALSE
    /\ wpm' = 0
    /\ isPlaying' = FALSE
    /\ isManualTransition' = FALSE
    /\ animation' = NoAnimation
    /\ progress' = Round(progress) * Word
    /\ baseIndex' = Round(progress)
    /\ resyncTimer' = ResyncAfter(baseIndex', FALSE, isInteracting)
    /\ modeSwitchTimer' = IF isTickerMode THEN "column" ELSE "ticker"
    /\ waitTimer' = 0
    /\ targetIndex' = 0
    /\ moveStartTimestamp' = -1
    /\ startPosition' = 0
    /\ UNCHANGED <<contentLength, savedWpm, isTickerMode, isInteracting,
                   startProgressRef, wasPlayingBeforeModeSwitch, responder,
                   voiceGender>>
    /\ HeadlinesRendered

\* The timer fires: setIsTickerMode.  The effect on [isTickerMode] disables
\* narration when the new mode is the ticker.
tts_modeSwitchFires ==
    /\ UNCHANGED tickedMs
    /\ UNCHANGED book
    /\ UNCHANGED storage
    /\ UNCHANGED chunkTimer
    /\ UNCHANGED gestureStart
    /\ modeSwitchTimer # "none"
    /\ modeSwitchTimer' = "none"
    /\ isTickerMode' = (modeSwitchTimer = "ticker")
    /\ IF isTickerMode' /\ ~isTickerMode /\ ttsEnabled
       THEN ttsEnabled' = FALSE /\ utterance' = NoUtterance
       ELSE UNCHANGED <<ttsEnabled, utterance>>
    /\ UNCHANGED <<contentLength, wpm, savedWpm, baseIndex, progress,
                   isInteracting, isManualTransition, waitTimer, targetIndex,
                   startProgressRef, wasPlayingBeforeModeSwitch, animation,
                   responder, isPlaying, voiceGender, resyncTimer,
                   moveStartTimestamp, startPosition>>
    /\ HeadlinesRendered

tts_onArrowClick(direction) ==
    /\ UNCHANGED tickedMs
    /\ UNCHANGED book
    /\ UNCHANGED storage
    /\ UNCHANGED chunkTimer
    /\ UNCHANGED gestureStart
    /\ responder = "none"
    /\ ~isTickerMode
    /\ isPlaying' = FALSE
    /\ wpm' = 0
    /\ IF ArrowTarget(direction) # Round(progress)
       THEN /\ targetIndex' = ArrowTarget(direction)
            /\ isManualTransition' = TRUE
            /\ moveStartTimestamp' = -1
            /\ startPosition' = 0
       ELSE /\ targetIndex' = LiveTarget(targetIndex, FALSE, isManualTransition)
            /\ UNCHANGED <<isManualTransition, moveStartTimestamp,
                           startPosition>>
    /\ waitTimer' = 0
    /\ UNCHANGED <<contentLength, savedWpm, isTickerMode, baseIndex, progress,
                   isInteracting, startProgressRef, wasPlayingBeforeModeSwitch,
                   animation, responder, ttsEnabled, voiceGender, utterance,
                   resyncTimer, modeSwitchTimer>>
    /\ HeadlinesRendered

\* Position slider: the value is written as it comes.  Whole positions are
\* explored.
TtsSeekValues == {k * Word : k \in 0..Max(0, contentLength - 1)}

tts_seek(val) ==
    /\ UNCHANGED tickedMs
    /\ UNCHANGED book
    /\ UNCHANGED storage
    /\ UNCHANGED chunkTimer
    /\ UNCHANGED gestureStart
    /\ responder = "none"
    /\ wpm' = 0
    /\ isPlaying' = FALSE
    /\ progress' = val
    /\ baseIndex' = Floor(val)
    /\ resyncTimer' = ResyncAfter(baseIndex', ttsEnabled, isInteracting)
    /\ animation' = NoAnimation
    /\ waitTimer' = 0
    /\ targetIndex' = LiveTarget(targetIndex, FALSE, isManualTransition)
    /\ UNCHANGED <<contentLength, savedWpm, isTickerMode, isInteracting,
                   isManualTransition, startProgressRef,
                   wasPlayingBeforeModeSwitch, responder, ttsEnabled,
                   voiceGender, utterance, modeSwitchTimer, moveStartTimestamp,
                   startPosition>>
    /\ HeadlinesRendered

tts_jumpToChapter(index) ==
    /\ UNCHANGED tickedMs
    /\ UNCHANGED book
    /\ UNCHANGED storage
    /\ UNCHANGED chunkTimer
    /\ UNCHANGED gestureStart
    /\ responder = "none"
    /\ wpm' = 0
    /\ isPlaying' = FALSE
    /\ animation' = NoAnimation
    /\ progress' = index * Word
    /\ targetIndex' = LiveTarget(index, FALSE, isManualTransition)
    /\ waitTimer' = 0
    /\ baseIndex' = index
    /\ resyncTimer' = ResyncAfter(baseIndex', ttsEnabled, isInteracting)
    /\ UNCHANGED <<contentLength, savedWpm, isTickerMode, isInteracting,
                   isManualTransition, startProgressRef,
                   wasPlayingBeforeModeSwitch, responder, ttsEnabled,
                   voiceGender, utterance, modeSwitchTimer, moveStartTimestamp,
                   startPosition>>
    /\ HeadlinesRendered

\* Rate slider.  The effect on [ttsEnabled, voiceGender, savedWpm] restarts
\* speech when the saved rate changed.
tts_setRate(val) ==
    /\ UNCHANGED tickedMs
    /\ UNCHANGED book
    /\ UNCHANGED storage
    /\ UNCHANGED chunkTimer
    /\ UNCHANGED gestureStart
    /\ responder = "none"
    /\ wpm' = IF wpm > 0 THEN val ELSE wpm
    /\ savedWpm' = val
    /\ utterance' = IF val = savedWpm THEN utterance
                    ELSE startSpeaking(ttsEnabled, utterance)
    /\ UNCHANGED <<contentLength, isTickerMode, baseIndex, progress,
                   isInteracting, isManualTransition, waitTimer, targetIndex,
                   startProgressRef, wasPlayingBeforeModeSwitch, animation,
                   responder, isPlaying, ttsEnabled, voiceGender, resyncTimer,
                   modeSwitchTimer, moveStartTimestamp, startPosition>>
    /\ HeadlinesRendered

\* ------------------------------------------------------ narration controls
\* Voice menu: setVoiceGender(value); setTtsEnabled(true).  The button that
\* opens the menu is rendered in column mode only.  The effect on
\* [ttsEnabled, voiceGender, savedWpm] starts speech when either changed.
tts_selectVoice(gender) ==
    /\ UNCHANGED tickedMs
    /\ UNCHANGED book
    /\ UNCHANGED storage
    /\ UNCHANGED chunkTimer
    /\ UNCHANGED gestureStart
    /\ responder = "none"
    /\ ~isTickerMode
    /\ voiceGender' = gender
    /\ ttsEnabled' = TRUE
    /\ utterance' = IF ttsEnabled /\ gender = voiceGender THEN utterance
                    ELSE startSpeaking(TRUE, utterance)
    /\ UNCHANGED <<contentLength, wpm, savedWpm, isTickerMode, baseIndex,
                   progress, isInteracting, isManualTransition, waitTimer,
                   targetIndex, startProgressRef, wasPlayingBeforeModeSwitch,
                   animation, responder, isPlaying, resyncTimer,
                   modeSwitchTimer, moveStartTimestamp, startPosition>>
    /\ HeadlinesRendered

\* The F / M buttons next to the play button, rendered while ttsEnabled.
tts_setVoiceGender(gender) ==
    /\ UNCHANGED tickedMs
    /\ UNCHANGED book
    /\ UNCHANGED storage
    /\ UNCHANGED chunkTimer
    /\ UNCHANGED gestureStart
    /\ responder = "none"
    /\ ttsEnabled
    /\ voiceGender' = gender
    /\ utterance' = IF gender = voiceGender THEN utterance
                    ELSE startSpeaking(TRUE, utterance)
    /\ UNCHANGED <<contentLength, wpm, savedWpm, isTickerMode, baseIndex,
                   progress, isInteracting, isManualTransition, waitTimer,
                   targetIndex, startProgressRef, wasPlayingBeforeModeSwitch,
                   animation, responder, isPlaying, ttsEnabled, resyncTimer,
                   modeSwitchTimer, moveStartTimestamp, startPosition>>
    /\ HeadlinesRendered

\* Voice menu, "Desactiver l'audio": the effect calls Speech.stop().
tts_disable ==
    /\ UNCHANGED tickedMs
    /\ UNCHANGED book
    /\ UNCHANGED storage
    /\ UNCHANGED chunkTimer
    /\ UNCHANGED gestureStart
    /\ responder = "none"
    /\ ~isTickerMode
    /\ ttsEnabled' = FALSE
    /\ utterance' = IF ttsEnabled THEN NoUtterance ELSE utterance
    /\ UNCHANGED <<contentLength, wpm, savedWpm, isTickerMode, baseIndex,
                   progress, isInteracting, isManualTransition, waitTimer,
                   targetIndex, startProgressRef, wasPlayingBeforeModeSwitch,
                   animation, responder, isPlaying, voiceGender, resyncTimer,
                   modeSwitchTimer, moveStartTimestamp, startPosition>>
    /\ HeadlinesRendered

\* The 400 ms timer fires: Speech.stop(); startSpeaking().  The timer was set
\* in a render in which ttsEnabled was true, and calls that render's
\* startSpeaking.
tts_resyncFires ==
    /\ UNCHANGED tickedMs
    /\ UNCHANGED book
    /\ UNCHANGED storage
    /\ UNCHANGED chunkTimer
    /\ UNCHANGED gestureStart
    /\ resyncTimer
    /\ resyncTimer' = FALSE
    /\ utterance' = startSpeaking(TRUE, NoUtterance)
    /\ UNCHANGED <<contentLength, wpm, savedWpm, isTickerMode, baseIndex,
                   progress, isInteracting, isManualTransition, waitTimer,
                   targetIndex, startProgressRef, wasPlayingBeforeModeSwitch,
                   animation, responder, isPlaying, ttsEnabled, voiceGender,
                   modeSwitchTimer, moveStartTimestamp, startPosition>>
    /\ HeadlinesRendered

\* ------------------------------------------------- speech engine callbacks
\* Speech.stop() is taken to silence the engine at once: no callback of a
\* stopped utterance is delivered.
CharIndices == 0..TextLength(utterance)

\* onBoundary(ev): ignored while isInteracting, else the cursor is written.
\* The engine reports the boundaries of an utterance in the order of the
\* text; it may leave some out.
onBoundary(charIndex) ==
    /\ UNCHANGED tickedMs
    /\ UNCHANGED book
    /\ UNCHANGED storage
    /\ UNCHANGED chunkTimer
    /\ UNCHANGED gestureStart
    /\ utterance.active
    /\ WordOffset(utterance, charIndex) + 1 >= utterance.spoken
    /\ utterance' = [utterance EXCEPT
                         !.spoken = WordOffset(utterance, charIndex) + 1]
    /\ IF isInteracting
       THEN UNCHANGED <<progress, animation, baseIndex, resyncTimer>>
       ELSE /\ progress' =
                  (utterance.startIndex + WordOffset(utterance, charIndex)) * Word
            /\ animation' = NoAnimation
            /\ baseIndex' = TtsSyncedBase(progress, progress', baseIndex)
            /\ resyncTimer' = ResyncAfter(baseIndex', ttsEnabled, FALSE)
    /\ UNCHANGED <<contentLength, wpm, savedWpm, isTickerMode, isInteracting,
                   isManualTransition, waitTimer, targetIndex, startProgressRef,
                   wasPlayingBeforeModeSwitch, responder, isPlaying,
                   ttsEnabled, voiceGender, modeSwitchTimer,
                   moveStartTimestamp, startPosition>>
    /\ HeadlinesRendered

\* onDone: the chunk was spoken to its end; the engine is silent and the
\* utterance keeps the chunk it has finished.  ttsEnabled is the one of the
\* render whose startSpeaking spoke the chunk, and that call went past
\* `!ttsEnabled`: it is true.  setTimeout(() => startSpeaking(), 50) is set
\* when startIndex + chunkSize < content.length; nothing clears it.
onDone ==
    /\ UNCHANGED tickedMs
    /\ UNCHANGED book
    /\ UNCHANGED storage
    /\ UNCHANGED gestureStart
    /\ utterance.active
    /\ utterance' = [utterance EXCEPT !.active = FALSE]
    /\ chunkTimer' = (chunkTimer
                         \/ utterance.startIndex + ChunkSize < contentLength)
    /\ UNCHANGED <<contentLength, wpm, savedWpm, isTickerMode, baseIndex,
                   progress, isInteracting, isManualTransition, waitTimer,
                   targetIndex, startProgressRef, wasPlayingBeforeModeSwitch,
                   animation, responder, isPlaying, ttsEnabled, voiceGender,
                   resyncTimer, modeSwitchTimer, moveStartTimestamp,
                   startPosition>>
    /\ HeadlinesRendered

\* onError: (e) => { console.warn("Speech error", e) }.  The engine has given
\* the utterance up; the handler changes nothing.
onError ==
    /\ UNCHANGED tickedMs
    /\ UNCHANGED book
    /\ UNCHANGED storage
    /\ UNCHANGED chunkTimer
    /\ UNCHANGED gestureStart
    /\ utterance.active
    /\ utterance' = NoUtterance
    /\ UNCHANGED <<contentLength, wpm, savedWpm, isTickerMode, baseIndex,
                   progress, isInteracting, isManualTransition, waitTimer,
                   targetIndex, startProgressRef, wasPlayingBeforeModeSwitch,
                   animation, responder, isPlaying, ttsEnabled, voiceGender,
                   resyncTimer, modeSwitchTimer, moveStartTimestamp,
                   startPosition>>
    /\ HeadlinesRendered

\* The 50 ms timer of onDone fires: startSpeaking() of the render that spoke
\* the finished chunk, in which ttsEnabled was true.
nextChunkFires ==
    /\ UNCHANGED tickedMs
    /\ UNCHANGED book
    /\ UNCHANGED storage
    /\ UNCHANGED gestureStart
    /\ chunkTimer
    /\ chunkTimer' = FALSE
    /\ utterance' = startSpeaking(TRUE, utterance)
    /\ UNCHANGED <<contentLength, wpm, savedWpm, isTickerMode, baseIndex,
                   progress, isInteracting, isManualTransition, waitTimer,
                   targetIndex, startProgressRef, wasPlayingBeforeModeSwitch,
                   animation, responder, isPlaying, ttsEnabled, voiceGender,
                   resyncTimer, modeSwitchTimer, moveStartTimestamp,
                   startPosition>>
    /\ HeadlinesRendered

NextTts ==
    \/ \E t \in TtsFrameTimes : tts_useFrameCallback(t)
    \/ tts_onPanResponderGrant
    \/ \E d \in Translations : tts_onPanResponderMove(d)
    \/ \E v \in Velocities : tts_onPanResponderRelease(v)
    \/ tts_onPanResponderTerminate
    \/ tts_TimingFinished
    \/ tts_DecayFrame
    \/ tts_togglePlay
    \/ tts_toggleTickerMode
    \/ tts_modeSwitchFires
    \/ \E direction \in {-1, 1} : tts_onArrowClick(direction)
    \/ \E val \in TtsSeekValues : tts_seek(val)
    \/ \E index \in ChapterIndices : tts_jumpToChapter(index)
    \/ \E val \in Rates : tts_setRate(val)
    \/ \E gender \in Genders : tts_selectVoice(gender)
    \/ \E gender \in Genders : tts_setVoiceGender(gender)
    \/ tts_disable
    \/ tts_resyncFires
    \/ \E charIndex \in CharIndices : onBoundary(charIndex)
    \/ onDone
    \/ onError
    \/ updateWindow

\* The narrating screen starts like the other one, on a stream of at most
\* MaxNarrated words.
InitTts ==
    /\ contentLength \in 0..MaxNarrated
    /\ words = [k \in 1..contentLength |-> StreamWord(k - 1)]
    /\ chapters = <<>>
    /\ \E initialIndex \in 0..Max(0, contentLength - 1) : Mounted(initialIndex)

SpecTts == InitTts /\ [][NextTts]_vars

\* ================================================================= claims
\* The three drivers of the cursor.  ReaderScreen.tsx has no narration:
\* ttsEnabled stays false in Spec.
Autoplaying == wpm > 0
Scrubbing == isInteracting
Narrating == ttsEnabled
NonEmpty == contentLength > 0
FrameTick == \E t \in FrameTimes : useFrameCallback(t)
GestureActive == responder # "none"
Settling == animation.kind # "none"
IsWholeWord(x) == x % Word = 0

\* C1: in every reachable state 0 <= cursor <= max(0, N - 1).
C1_CursorInBounds ==
    /\ 0 <= progress
    /\ progress <= Max(0, contentLength - 1) * Word

\* C2: in every reachable state (of a non-empty stream) at most one of
\* Autoplaying, Scrubbing and Narrating holds.
C2_OneDriver ==
    NonEmpty => /\ ~(Autoplaying /\ Scrubbing)
                /\ ~(Autoplaying /\ Narrating)
                /\ ~(Scrubbing /\ Narrating)

\* C3: from the start of a gesture until the gesture and its settling
\* animation are over, no autoplay frame tick changes the cursor (of a
\* non-empty stream).
C3_NoTickUntilSettled ==
    [][(NonEmpty /\ (GestureActive \/ Settling) /\ FrameTick)
          => progress' = progress]_vars

\* C4: a narration boundary callback delivered while narration is disabled,
\* or while autoplay or a gesture drives the cursor, leaves the cursor
\* unchanged.
BoundaryEvent == \E charIndex \in CharIndices : onBoundary(charIndex)
C4_StaleBoundaryDiscarded ==
    [][(BoundaryEvent /\ (~Narrating \/ Autoplaying \/ Scrubbing))
          => progress' = progress]_vars

\* C5: with autoplay running on the last word (cursor = N - 1), a tick that
\* attempts to advance leaves the cursor at N - 1 and resets the rate to 0,
\* in the continuous and in the discrete discipline.
AttemptsToAdvance == isTickerMode \/ ~(waitTimer * wpm < MsPerMinute)
C5_LastWordTickStops ==
    [][( /\ contentLength > 0
         /\ progress = LastWord
         /\ targetIndex = contentLength - 1
         /\ AttemptsToAdvance
         /\ FrameTick ) => (progress' = LastWord /\ wpm' = 0)]_vars

\* C6: autoplay with rate > 0, frame ticks continuing and no user input,
\* stops by itself: while the rate is > 0 and no touch is held, a frame step
\* (a tick, or the animation frame that releases the cursor) can be taken.
FrameStep == FrameTick \/ TimingFinished \/ DecayFrame
C6_AutoplayCanProceed ==
    (NonEmpty /\ Autoplaying /\ ~GestureActive /\ targetIndex < contentLength)
        => ENABLED FrameStep

\* C7: starting a gesture, in column mode and in ticker mode, sets the rate
\* to 0 and cancels the running cursor animation (on a non-empty stream).
C7_GestureStartStopsDrivers ==
    [][(NonEmpty /\ responder = "none" /\ responder' # "none")
          => (wpm' = 0 /\ animation'.kind = "none")]_vars

\* C8: after every release or termination of a gesture isInteracting
\* eventually becomes false: while it is true and no touch is held, the
\* animation whose completion clears it is in flight.
C8_ScrubbingIsLeft ==
    (NonEmpty /\ isInteracting /\ ~GestureActive)
        => ENABLED (TimingFinished \/ DecayFrame)

\* C9: a gesture released below the velocity threshold ends, once settling
\* is over, on an integer cursor value, in column mode (the snap completes)
\* and in ticker mode (the renderer's release).
C9_ReleaseEndsOnWholeWord ==
    [][(TimingFinished \/ HeadlinesRelease) => IsWholeWord(progress')]_vars

\* C10: after jumpToChapter(i) the cursor is the marker's word index, the
\* rate is 0 and isInteracting is false, whatever was in flight.
C10_JumpReturnsToIdle ==
    [][\A index \in ChapterIndices :
          (NonEmpty /\ jumpToChapter(index)) =>
              /\ progress' = index * Word
              /\ wpm' = 0
              /\ animation'.kind = "none"
              /\ ~isInteracting']_vars

\* C11: during a drag the cursor is clamp(start + delta, 0, N - 1), start
\* being the cursor at gesture start and delta -dy * 0.02 in column mode and
\* -dx * 0.02 * 0.2 in ticker mode, for the translation since gesture start
\* (on a non-empty stream, whichever responder holds the touch).
Clamp(x, low, high) == Max(low, Min(x, high))
ClaimedDelta(d) ==
    IF isTickerMode THEN (-d * Word * 2 * 2) \div 1000
                    ELSE (-d * Word * 2) \div 100
ClaimedDrag(d) == Clamp(gestureStart + ClaimedDelta(d), 0, LastWord)
C11_DragFollowsFormula ==
    [][NonEmpty =>
         /\ \A d \in Translations :
               onPanResponderMove(d) => progress' = ClaimedDrag(d)
         /\ \A dx \in TickerTranslations :
               HeadlinesMove(dx) => progress' = ClaimedDrag(dx)]_vars

\* ============================================================ autoplay runs
\* SpecRun follows one uninterrupted run of autoplay of ReaderScreen.tsx: the
\* visual mode is chosen, play is pressed once at word 0, and frames tick.
\* tickedMs adds up the frame times handed to the callback.
\* Stream lengths of the run: one that the continuous run does not exhaust,
\* and one that it does.
RunWords == 52
ShortRunWords == 12
\* Length of the explored run, in ms: continuous and discrete discipline.
MaxRunMs == 10000
DwellRunMs == 2050
\* timeSincePreviousFrame values of the run, in ms.
RunFrameTimes == {16, 50}

InitRun == NoBook /\ contentLength \in {ShortRunWords, RunWords} /\ Mounted(0)

RunMode ==
    /\ wpm = 0
    /\ tickedMs = 0
    /\ toggleTickerMode

RunPlay ==
    /\ wpm = 0
    /\ tickedMs = 0
    /\ togglePlay

RunTick(t) ==
    /\ tickedMs + FrameMs(t) <= (IF isTickerMode THEN MaxRunMs ELSE DwellRunMs)
    /\ tickedMs' = tickedMs + FrameMs(t)
    /\ UNCHANGED book
    /\ UNCHANGED storage
    /\ wpm # 0
    /\ ~isInteracting
    /\ IF isTickerMode THEN TickerTick(t) ELSE RsvpTick(t)
    /\ animation' = NoAnimation
    /\ UNCHANGED <<contentLength, savedWpm, isTickerMode, isInteracting,
                   isManualTransition, startProgressRef,
                   wasPlayingBeforeModeSwitch, responder, narration,
                   gestureStart>>
    /\ HeadlinesRendered

NextRun ==
    \/ RunMode
    \/ RunPlay
    \/ \E t \in RunFrameTimes : RunTick(t)

SpecRun == InitRun /\ [][NextRun]_vars

\* C12: in the discrete discipline, after a run of frame ticks totalling
\* T = DwellRunMs ms the target index has advanced by exactly
\* floor(T / dwell), dwell = 60000 / wpm: by 10 for wpm = 300 and 2050 ms
\* (the run starts at word 0 and does not reach the end).
C12_DwellCount ==
    (~isTickerMode /\ wpm > 0 /\ tickedMs = DwellRunMs)
        => targetIndex = (tickedMs * wpm) \div MsPerMinute

\* C13: in the continuous discipline every frame tick of at most 50 ms adds
\* exactly (wpm / 60000) * elapsedMs to the cursor before clamping to
\* [0, N - 1]; a run of MaxRunMs ms of such ticks at wpm = 300 (625 ticks of
\* 16 ms) has advanced the cursor by wpm * MaxRunMs / 60000 = 50 words when
\* the bound is not reached.
ClaimedStep(t) == Clamp(progress + wpm * t, 0, LastWord)
C14_EmptyStreamIsInert ==
    contentLength = 0 => (progress = 0 /\ wpm = 0)

\* ------------------------------------------------------- chapter detection
\* processBookText (src/unnamed/part_002) splits the text on white space and
\* scans the tokens for chapter headings.  A token is a sequence of
\* characters, so that upper-casing and the numeral pattern are computed.
MaxTokens == 4
HeadingAt == 57

LowerCase == <<"a", "b", "c", "d", "e", "f", "g", "h", "i", "j", "k", "l", "m",
               "n", "o", "p", "q", "r", "s", "t", "u", "v", "w", "x", "y", "z">>
UpperCase == <<"A", "B", "C", "D", "E", "F", "G", "H", "I", "J", "K", "L", "M",
               "N", "O", "P", "Q", "R", "S", "T", "U", "V", "W", "X", "Y", "Z">>

\* String.prototype.toUpperCase, on the characters the tokens are made of.
UpperOf ==
    [c \in {LowerCase[n] : n \in 1..26} |->
        UpperCase[CHOOSE n \in 1..26 : LowerCase[n] = c]]

toUpperCase(w) ==
    [k \in 1..Len(w) |-> IF w[k] \in DOMAIN UpperOf THEN UpperOf[w[k]] ELSE w[k]]

Digits == {"0", "1", "2", "3", "4", "5", "6", "7", "8", "9"}
RomanLetters == {"I", "V", "X", "L", "C", "D", "M"}

\* w === 'CHAPTER' || w === 'CHAPITRE'
IsKeyword(w) ==
    \/ w = <<"C", "H", "A", "P", "T", "E", "R">>
    \/ w = <<"C", "H", "A", "P", "I", "T", "R", "E">>

\* /^(\d+|[IVXLCDM]+)[\.:]?$/.test(next)
IsNumeral(next) ==
    \E n \in {Len(next) - 1, Len(next)} :
        /\ n >= 1
        /\ n < Len(next) => next[Len(next)] \in {".", ":"}
        /\ \/ \A k \in 1..n : next[k] \in Digits
           \/ \A k \in 1..n : next[k] \in RomanLetters

\* `${words[i]} ${words[i+1]}`
Title(ws, i) == ws[i] \o <<" ">> \o ws[i + 1]

IsHeading(ws, i) ==
    IsKeyword(toUpperCase(ws[i])) /\ IsNumeral(toUpperCase(ws[i + 1]))

\* Scans that put the marker somewhere else, or in another order.
RECURSIVE ScanToNumeral(_, _, _)
ScanToNumeral(ws, i, found) ==
    IF i > Len(ws) - 1 THEN found
    ELSE IF IsHeading(ws, i)
         THEN ScanToNumeral(ws, i + 2,
                  Append(found, [title |-> Title(ws, i), index |-> i]))
         ELSE ScanToNumeral(ws, i + 1, found)

MarkersAtNumeral(ws) == ScanToNumeral(ws, 1, <<>>)

RECURSIVE ScanNewestFirst(_, _, _)
ScanNewestFirst(ws, i, found) ==
    IF i > Len(ws) - 1 THEN found
    ELSE IF IsHeading(ws, i)
         THEN ScanNewestFirst(ws, i + 2,
                  <<[title |-> Title(ws, i), index |-> i - 1]>> \o found)
         ELSE ScanNewestFirst(ws, i + 1, found)

MarkersNewestFirst(ws) == ScanNewestFirst(ws, 1, <<>>)

\* for (let i = 0; i < words.length - 1; i++): i counts from 1 here, the
\* index pushed is the source's, from 0.
RECURSIVE Scan(_, _, _)
Scan(ws, i, found) ==
    IF i > Len(ws) - 1 THEN found
    ELSE IF IsHeading(ws, i)
         THEN Scan(ws, i + 2,
                  Append(found, [title |-> Title(ws, i), index |-> i - 1]))
         ELSE Scan(ws, i + 1, found)

Markers(ws) == Scan(ws, 1, <<>>)

\* chapters.push({ title: 'Début', index: 0 })
DefaultMarker == [title |-> <<"D", "é", "b", "u", "t">>, index |-> 0]

ChaptersOf(ws) == IF Markers(ws) = <<>> THEN <<DefaultMarker>> ELSE Markers(ws)

\* The call: the tokens are kept, the chapter list is returned with them.
processBookText ==
    /\ chapters = <<>>
    /\ chapters' = ChaptersOf(words)
    /\ UNCHANGED <<words, window, narration, gestureStart, tickedMs>>
    /\ UNCHANGED storage
    /\ UNCHANGED <<contentLength, wpm, savedWpm, isTickerMode, baseIndex,
                   progress, isInteracting, isManualTransition, waitTimer,
                   targetIndex, startProgressRef, wasPlayingBeforeModeSwitch,
                   animation, responder>>

\* Tokens of the texts that are scanned.
Tokens ==
    { <<"C", "H", "A", "P", "T", "E", "R">>,
      <<"C", "h", "a", "p", "i", "t", "r", "e">>,
      <<"1">>,
      <<"i", "v", ".">>,
      <<"X", ":">>,
      <<"1", "a">>,
      <<"w", "o", "r", "d">> }

Plain == <<"w", "o", "r", "d">>

TokenSeqs == UNION { [1..n -> Tokens] : n \in 0..MaxTokens }

\* A text is a run of plain words, none or HeadingAt of them, and then up to
\* MaxTokens tokens.
InitBook ==
    /\ \E lead \in {0, HeadingAt} : \E tail \in TokenSeqs :
           words = [k \in 1..lead |-> Plain] \o tail
    /\ chapters = <<>>
    /\ contentLength = Len(words)
    /\ Mounted(0)

NextBook == processBookText

SpecBook == InitBook /\ [][NextBook]_vars

\* C15: the scan records one marker at index i, with the title made of
\* tokens i and i+1, for every token i that is CHAPTER or CHAPITRE in any
\* case and is followed by a numeral token, and none at the numeral; CHAPTER
\* followed by 1 at word index 57 yields a marker with index 57; a text with
\* no such pair yields exactly the default marker at index 0.
Processed == chapters # <<>>
MarkerAt(i) == { k \in 1..Len(chapters) : chapters[k].index = i }
Headings == { i \in 0..(Len(words) - 2) : IsHeading(words, i + 1) }

C15_MarkerPerHeading ==
    Processed =>
        /\ \A i \in Headings :
              /\ Cardinality(MarkerAt(i)) = 1
              /\ \A k \in MarkerAt(i) :
                    chapters[k].title = words[i + 1] \o <<" ">> \o words[i + 2]
              /\ MarkerAt(i + 1) = {}
        /\ Headings # {} => \A k \in 1..Len(chapters) : chapters[k].index \in Headings
        /\ Headings = {} => chapters = <<DefaultMarker>>
        /\ (/\ Len(words) > HeadingAt + 1
            /\ toUpperCase(words[HeadingAt + 1]) = <<"C", "H", "A", "P", "T", "E", "R">>
            /\ words[HeadingAt + 2] = <<"1">>) => MarkerAt(HeadingAt) # {}

C15_Witness ==
    /\ Processed
    /\ Len(words) = HeadingAt + 4
    /\ Len(chapters) = 2
    /\ chapters[1].index = HeadingAt
    /\ chapters[1].title = <<"C", "H", "A", "P", "T", "E", "R", " ", "1">>
    /\ chapters[2].index = HeadingAt + 2

\* C16: for every word stream of length N the chapter list returned is
\* non-empty, strictly ascending by index, and every index lies in [0, N).
Ascending ==
    \A k \in 1..(Len(chapters) - 1) : chapters[k].index < chapters[k + 1].index

C16_MarkersInStream ==
    Processed =>
        /\ Len(chapters) >= 1
        /\ Ascending
        /\ \A k \in 1..Len(chapters) :
              chapters[k].index >= 0 /\ chapters[k].index < Len(words)

\* C16, amended: the list is non-empty and strictly ascending, and every
\* index lies in [0, N) when N > 0; for the empty stream the list is the
\* default marker alone, at index 0.
C16_MarkersInNonEmptyStream ==
    Processed =>
        /\ Len(chapters) >= 1
        /\ Ascending
        /\ Len(words) > 0 =>
              \A k \in 1..Len(chapters) :
                  chapters[k].index >= 0 /\ chapters[k].index < Len(words)
        /\ Len(words) = 0 => chapters = <<DefaultMarker>>

C16_Witness ==
    /\ Processed
    /\ Len(words) = MaxTokens
    /\ Len(chapters) = 2
    /\ chapters[1].index = 0
    /\ chapters[2].index = Len(words) - 2

\* ------------------------------------------------ narration of one chunk
\* Streams of up to MaxChunk words are narrated from the word the screen was
\* opened at: narration is switched on, the engine reports boundaries, the
\* resynchronisation timer restarts the speech at the cursor.
MaxChunk == 4

SpokenWords ==
    { <<"t", "h", "e">>, <<"q", "u", "i", "c", "k">>,
      <<"b", "r", "o", "w", "n">>, <<"f", "o", "x">> }

InitSpeech ==
    /\ \E n \in 1..MaxChunk : words \in [1..n -> SpokenWords]
    /\ chapters = <<>>
    /\ contentLength = Len(words)
    /\ \E initialIndex \in 0..(contentLength - 1) : Mounted(initialIndex)

NextSpeech ==
    \/ \E gender \in Genders : tts_selectVoice(gender)
    \/ tts_resyncFires
    \/ \E charIndex \in CharIndices : onBoundary(charIndex)
    \/ onDone

SpecSpeech == InitSpeech /\ [][NextSpeech]_vars

\* C17: for a chunk of words joined by single spaces, a boundary event at
\* character offset k moves the cursor to chunkStart + w, where w is the
\* largest word offset whose start offset in the chunk is <= k; for the chunk
\* 'the quick brown fox' and k = 10 the word offset is 2.
RECURSIVE StartOffset(_, _)
StartOffset(u, w) ==
    IF w = 0 THEN 0
    ELSE StartOffset(u, w - 1) + Len(words[u.startIndex + w]) + 1

WordContaining(u, k) ==
    CHOOSE w \in 0..(u.words - 1) :
        /\ StartOffset(u, w) <= k
        /\ \A x \in 0..(u.words - 1) : StartOffset(u, x) <= k => x <= w

TheQuickBrownFox ==
    <<<<"t", "h", "e">>, <<"q", "u", "i", "c", "k">>,
      <<"b", "r", "o", "w", "n">>, <<"f", "o", "x">>>>

C17_BoundaryMapsToWord ==
    [][\A k \in CharIndices :
          (onBoundary(k) /\ ~isInteracting) =>
              /\ progress' = (utterance.startIndex + WordContaining(utterance, k)) * Word
              /\ (/\ words = TheQuickBrownFox
                  /\ utterance.startIndex = 0
                  /\ k = 10) => progress' = 2 * Word]_vars

C17_Witness ==
    /\ words = TheQuickBrownFox
    /\ utterance.active
    /\ utterance.startIndex = 1
    /\ progress = 3 * Word

\* ------------------------------------------------- the window over a book
\* A book longer than the window is read in both modes: the mode is
\* switched, play is pressed, frames tick for MaxWalkMs at most, chapters at
\* the edges of the safe part of the first window and at the end of the book
\* are jumped to.
BookWords == 500
MaxWalkMs == 400

SavedPositions == {0, BookWords - 1}

WindowJumps ==
    {0, WindowBack \div 2 - 1, WindowWords - WindowBack \div 2,
     WindowWords - 1, BookWords - 1}

\* The book is made of the words of the narrated stream.
InitWindow ==
    /\ words = [k \in 1..BookWords |-> StreamWord(k - 1)]
    /\ chapters = <<>>
    /\ contentLength = BookWords
    /\ \E initialIndex \in SavedPositions : Mounted(initialIndex)

\* The frame callback, with the time it is handed added up to a budget.
WalkTick(t, budget) ==
    /\ tickedMs + FrameMs(t) <= budget
    /\ tickedMs' = tickedMs + FrameMs(t)
    /\ UNCHANGED book
    /\ UNCHANGED storage
    /\ wpm # 0
    /\ ~isInteracting
    /\ IF isTickerMode THEN TickerTick(t) ELSE RsvpTick(t)
    /\ animation' = NoAnimation
    /\ UNCHANGED <<contentLength, savedWpm, isTickerMode, isInteracting,
                   isManualTransition, startProgressRef,
                   wasPlayingBeforeModeSwitch, responder, narration,
                   gestureStart>>
    /\ HeadlinesRendered

WindowTick(t) == WalkTick(t, MaxWalkMs)

NextWindow ==
    \/ toggleTickerMode
    \/ togglePlay
    \/ WindowTick(MaxFrameMs)
    \/ \E index \in WindowJumps : jumpToChapter(index)
    \/ updateWindow

SpecWindow == InitWindow /\ [][NextWindow]_vars

\* C18: in ticker mode the render window [windowStart, windowStart + number
\* of window words) contains floor(cursor) in every state in which no
\* resynchronisation of the window is pending.
InWindow(i) == windowStartWord <= i /\ i < windowStartWord + windowWords

C18_WindowContainsCursor ==
    (isTickerMode /\ NonEmpty /\ ~updatePending) => InWindow(Floor(progress))

C20_FailureForcesIdle ==
    [][onError => /\ ~utterance'.active
                  /\ ~Narrating'
                  /\ ~Autoplaying'
                  /\ progress' = progress]_vars

\* C21: a single autoplay tick (on a non-empty stream), whatever elapsed
\* time it reports, never moves the cursor by more than the step of a 50 ms
\* frame at the current rate in ticker mode, and never by more than one word
\* in column mode.
C21_TickStepBounded ==
    [][\A t \in FrameTimes :
          (NonEmpty /\ useFrameCallback(t)) =>
              Abs(progress' - progress) <=
                  (IF isTickerMode THEN wpm * MaxFrameMs ELSE Word)]_vars

\* C22: a window recompute is requested only when floor(cursor) lies outside
\* the inner safety margin of the current window, and right after a
\* recompute centred on index i, i itself lies inside the margin of the new
\* window, for every i in [0, N-1].
InMargin(start, i) ==
    /\ 2 * i >= 2 * start + WindowBack
    /\ 2 * i <= 2 * (start + WindowWords) - WindowBack

CursorInStream == progress >= 0 /\ progress <= LastWord

C22_RecomputeOutsideMarginOnly ==
    [][(NonEmpty /\ isTickerMode' /\ CursorInStream') =>
          LET before == IF isTickerMode THEN lastWindowStart ELSE 0
              requested == updatePending' /\ ~(isTickerMode /\ updatePending)
          IN  /\ requested => ~InMargin(before, Floor(progress'))
              /\ InMargin(lastWindowStart', Floor(progress'))]_vars

\* ------------------------------------------- what HeadlinesRenderer draws
\* The loop of updateWindow over the slice,
\*     for (let i = 0; i < wordsSlice.length; i++) {
\*         localOffsets[i] = acc; acc += wordsSlice[i].length + 1 }
\* gives entry i the characters of the words before i, and `space` for each
\* joined space.  The sums are taken by halves of the slice words[low..high]
\* to keep the evaluation shallow for a window of WindowWords words.
RECURSIVE Characters(_, _, _)
Characters(low, high, space) ==
    IF low > high THEN 0
    ELSE IF low = high THEN Len(words[low]) + space
    ELSE Characters(low, (low + high) \div 2, space)
             + Characters((low + high) \div 2 + 1, high, space)

RECURSIVE OffsetsFrom(_, _, _, _)
OffsetsFrom(low, high, acc, space) ==
    IF low > high THEN <<>>
    ELSE IF low = high THEN <<acc>>
    ELSE OffsetsFrom(low, (low + high) \div 2, acc, space)
             \o OffsetsFrom((low + high) \div 2 + 1, high,
                            acc + Characters(low, (low + high) \div 2, space),
                            space)

\* A table that leaves the joined spaces out.
LocalOffsetsWithoutSpaces(start, count) ==
    OffsetsFrom(start + 1, start + count, 0, 0)

LocalOffsets(start, count) == OffsetsFrom(start + 1, start + count, 0, 1)

\* windowWordOffsets.value, written by the updateWindow call that set
\* windowStartWord; entry i of the source is entry i + 1 here.
windowWordOffsets == LocalOffsets(windowStartWord, windowWords)

\* The book of SpecWindow, with frames ticking for MaxRenderMs at most.
MaxRenderMs == 100

RenderTick(t) == WalkTick(t, MaxRenderMs)

NextRender ==
    \/ toggleTickerMode
    \/ togglePlay
    \/ RenderTick(MaxFrameMs)
    \/ \E index \in WindowJumps : jumpToChapter(index)
    \/ updateWindow

SpecRender == InitWindow /\ [][NextRender]_vars

\* C23: updateWindow(center) on a stream of N > 0 words produces
\* start = max(0, center - 150), end = min(N, start + 400), the window words
\* stream[start..end) and a character-offset table of the same length with
\* offset[0] = 0 and offset[i+1] = offset[i] + len(word[i]) + 1.
WindowRequested == isTickerMode' /\ updatePending' /\ ~(isTickerMode /\ updatePending)

C23_UpdateWindowResult ==
    [][NonEmpty =>
          /\ WindowRequested =>
                lastWindowStart' = Max(0, Floor(progress') - 150)
          /\ updateWindow =>
                \A start \in {windowStartWord'} :
                \A end \in {windowStartWord' + windowWords'} :
                \A slice \in {SubSeq(words, start + 1, end)} :
                \A table \in {LocalOffsets(start, end - start)} :
                    /\ start = lastWindowStart
                    /\ end = Min(contentLength, start + 400)
                    /\ slice = [i \in 1..(end - start) |-> words[start + i]]
                    /\ Len(table) = end - start
                    /\ table[1] = 0
                    /\ \A i \in 1..(Len(table) - 1) :
                          table[i + 1] = table[i] + Len(words[start + i]) + 1]_vars

C23_Witness ==
    /\ isTickerMode
    /\ ~updatePending
    /\ windowStartWord = WindowWords - 1 - WindowBack
    /\ windowWords = BookWords - windowStartWord
    /\ Len(windowWordOffsets) = windowWords

\* containerStyle, the animated style of the line.  It reads the table
\* windowWordOffsets.value, the start activeWindowStartWord.value and the
\* cursor; local indices are those of the source, counted from 0.
LocalIdx(cursor) == Floor(cursor) - windowStartWord

\* A style that reads entry localIdx + 1 without looking at the table's length.
OffsetsReadPastEnd(cursor) ==
    IF windowWords = 0 THEN {}
    ELSE IF LocalIdx(cursor) < 0 \/ LocalIdx(cursor) >= windowWords THEN {}
    ELSE {LocalIdx(cursor), LocalIdx(cursor) + 1}

\* The entries offsets[...] the style indexes: offsets[localIdx] after the
\* two early returns, and offsets[localIdx + 1] under
\* `localIdx < offsets.length - 1`.
OffsetsRead(cursor) ==
    IF windowWords = 0 THEN {}
    ELSE IF LocalIdx(cursor) < 0 \/ LocalIdx(cursor) >= windowWords THEN {}
    ELSE {LocalIdx(cursor)}
             \cup (IF LocalIdx(cursor) < windowWords - 1
                   THEN {LocalIdx(cursor) + 1} ELSE {})

\* translateX = anchor - chars * charWidth, with anchor 0 ("left") or
\* screenW / 2 ("centre") and chars in sixty-thousandths of a character
\* (the cursor's fraction is in sixty-thousandths of a word).
LeftEdge == [anchor |-> "left", chars |-> 0]

Centre == [anchor |-> "centre", chars |-> 0]

\* `let wordLen = 5`, kept for the last entry of the table.
DefaultWordLen == 5

containerStyle(cursor) ==
    IF windowWords = 0 THEN LeftEdge
    ELSE IF LocalIdx(cursor) < 0 \/ LocalIdx(cursor) >= windowWords THEN Centre
    ELSE LET offsets  == windowWordOffsets
             localIdx == LocalIdx(cursor)
             fraction == cursor - Floor(cursor) * Word
             baseChar == offsets[localIdx + 1]
             wordLen  == IF localIdx < windowWords - 1
                         THEN Max(1, offsets[localIdx + 2] - baseChar - 1)
                         ELSE DefaultWordLen
         IN  [anchor |-> "centre", chars |-> baseChar * Word + wordLen * fraction]

C25_RenderOffsetUsesWordLength ==
    (isTickerMode /\ NonEmpty /\ LocalIdx(progress) \in 0..(windowWords - 1)) =>
        containerStyle(progress).chars =
            windowWordOffsets[LocalIdx(progress) + 1] * Word
                + Len(words[Floor(progress) + 1])
                      * (progress - Floor(progress) * Word)

\* ------------------------------------------------- the mirror of the cursor
\* SpecMirror drags the cursor of the long book with ReaderScreen's
\* responder: the drag writes progress only, so baseIndex follows through
\* the reaction alone.  Translations of 51, 50 and 0.2 words forward and 25
\* words back in ticker mode, five times as many in column mode.
MirrorTranslations == {-12750, -12500, -50, 6250}

NextMirror ==
    \/ toggleTickerMode
    \/ \E index \in WindowJumps : jumpToChapter(index)
    \/ onPanResponderGrant
    \/ \E d \in MirrorTranslations : onPanResponderMove(d)
    \/ updateWindow

SpecMirror == InitWindow /\ [][NextMirror]_vars

ChunkedWords == 150

InitChunks ==
    /\ words = [k \in 1..ChunkedWords |-> StreamWord(k - 1)]
    /\ chapters = <<>>
    /\ contentLength = ChunkedWords
    /\ Mounted(0)

\* charIndex of the boundary of the next word of the utterance.
NextBoundary ==
    Characters(utterance.startIndex + 1,
               utterance.startIndex + utterance.spoken, 1)

wordBoundary ==
    /\ utterance.spoken < utterance.words
    /\ onBoundary(NextBoundary)

\* A chunk takes longer than the 50 ms of the timer its predecessor set.
chunkDone ==
    /\ utterance.spoken = utterance.words
    /\ ~chunkTimer
    /\ onDone

NextChunks ==
    \/ \E gender \in Genders : tts_selectVoice(gender)
    \/ tts_disable
    \/ wordBoundary
    \/ chunkDone
    \/ nextChunkFires
    \/ tts_resyncFires

SpecChunks == InitChunks /\ [][NextChunks]_vars

\* Speech.speak is handed a new chunk.
ChunkStarted == utterance'.active /\ utterance'.spoken = 0 /\ utterance' # utterance

\* C27: when narration is entered, the narration in progress is stopped
\* first, the chunk starts at chunkStart = floor(cursor) and holds the next
\* min(100, N - chunkStart) words, and no two utterances are ever in flight,
\* also when start requests overlap.  The engine of the model holds one
\* utterance, which a start replaces; the formula states where the chunk
\* starts and what it holds.
C27_ChunkFromFloorOfCursor ==
    [][ChunkStarted =>
          /\ utterance'.startIndex = Floor(progress')
          /\ utterance'.words = Min(100, contentLength - Floor(progress'))]_vars

\* C28: when a chunk completes, a new chunk is requested if and only if
\* words remain beyond the finished chunk and narration is still enabled at
\* that time; the new chunk starts at the cursor as the finished chunk left
\* it, so that it starts after the start of the finished chunk.
C28_NextChunkWhenEnabled ==
    [][/\ chunkDone =>
              (chunkTimer' <=>
                  (ttsEnabled /\ utterance.startIndex + 100 < contentLength))
       /\ (nextChunkFires /\ ~utterance.active /\ utterance.words > 0
               /\ utterance'.active) =>
              /\ utterance'.startIndex = Floor(progress)
              /\ utterance'.startIndex > utterance.startIndex]_vars

\* C29: while narration is enabled, a voice change, a rate change or a
\* manual scroll stops the narration and restarts it from the new cursor,
\* debounced: the restart is issued only by the 400 ms timer, once no further
\* change has come for 400 ms.  The other start of a chunk while narration
\* runs is the one that follows the end of a chunk.
C29_RestartDebounced ==
    [][(ttsEnabled /\ ttsEnabled' /\ utterance.active /\ ChunkStarted) =>
          \/ resyncTimer /\ ~resyncTimer'
          \/ chunkTimer /\ ~chunkTimer']_vars

\* C30: a slider seek or a chapter jump that interrupts a running decay or a
\* settling snap still lets isInteracting return to false: after it, either
\* isInteracting is false or an animation whose completion clears it is in
\* flight, so that isInteracting is never left true with no gesture in
\* progress and a later play advances the cursor.
SeekOrJump ==
    \/ \E val \in SeekValues : seek(val)
    \/ \E index \in ChapterIndices : jumpToChapter(index)

C30_InterruptedSettlingEnds ==
    [][(NonEmpty /\ Settling /\ ~GestureActive /\ SeekOrJump) =>
          (~isInteracting' \/ animation'.kind # "none")]_vars

\* C31: an arrow step with no gesture active pauses autoplay and moves the
\* cursor to clamp(round(cursor) +/- 1, 0, N - 1): the cursor eventually
\* equals the new target and isManualTransition eventually returns to false.
\* While the transition is under way and nothing holds the cursor, a frame
\* that carries it on (moves the cursor or ends the transition) can be taken.
TransitionFrame == FrameTick /\ (progress' # progress \/ ~isManualTransition')

C31_ArrowStepLands ==
    (NonEmpty /\ isManualTransition /\ ~GestureActive /\ ~isInteracting)
        => ENABLED TransitionFrame

\* C32: whenever the mode is discrete and the engine is idle, with no gesture
\* and no animation in flight, the cursor is an integer, also after pausing
\* continuous autoplay and after toggling from ticker mode to discrete mode
\* at a fractional cursor.
Idle == ~Autoplaying /\ ~Scrubbing /\ ~Narrating

C32_IdleDiscreteCursorIsWhole ==
    (NonEmpty /\ ~isTickerMode /\ Idle /\ ~GestureActive /\ ~Settling)
        => IsWholeWord(progress)

\* C33: cursor writes made by narration boundary events never cause the
\* narration to be stopped and restarted: the resynchronisation restart
\* follows a manual cursor change only.  A boundary event does not set the
\* 400 ms timer whose firing restarts the narration.
C33_BoundaryDoesNotArmResync ==
    [][(wordBoundary /\ ~resyncTimer) => ~resyncTimer']_vars

\* C34: whenever no updateWindow call is pending, the window start tracked
\* on the UI thread (lastWindowStart, which decides recomputes) equals the
\* start of the window that is rendered (activeWindowStartWord), however the
\* updateWindow(0) of the mount and the recomputes posted by the reaction
\* come.
C34_TrackedStartIsRenderedStart ==
    (isTickerMode /\ NonEmpty /\ ~updatePending) =>
        lastWindowStart = windowStartWord

C34_Witness ==
    /\ isTickerMode
    /\ ~updatePending
    /\ windowStartWord = BookWords - 1 - WindowBack
    /\ lastWindowStart = windowStartWord
    /\ Floor(progress) > BookWords - 1 - WindowBack \div 2


\* C35: moving the rate slider while paused changes the saved rate only (it
\* stays paused and the cursor stays); moving it while playing changes the
\* rate and keeps playing; pausing sets the rate to 0 and leaves the cursor
\* and the saved rate; playing takes the saved rate, which only the slider
\* writes, so that it is the last rate selected.
C35_RateSliderAndPlay ==
    [][ /\ \A val \in Rates :
             setRate(val) =>
                 /\ savedWpm' = val
                 /\ progress' = progress
                 /\ (wpm = 0 => wpm' = 0)
                 /\ (wpm > 0 => wpm' = val)
        /\ togglePlay =>
                 /\ savedWpm' = savedWpm
                 /\ progress' = progress
                 /\ (wpm > 0 => wpm' = 0)
                 /\ (wpm = 0 => wpm' = savedWpm)
        /\ savedWpm' # savedWpm => \E val \in Rates : setRate(val)
      ]_vars

\* Playing at a rate that was selected while it was paused.
C35_Witness ==
    /\ wpm = 600
    /\ savedWpm = 600
    /\ progress > 0
    /\ ~isInteracting

\* C36: a seek of the position slider to v pauses autoplay and leaves the
\* cursor, the discrete target index and the mirror index equal, at the
\* word that holds v: floor(v) kept inside 0 .. N-1.
C36_SeekSetsAllThree ==
    [][\A val \in SeekValues :
          seek(val) =>
              /\ wpm' = 0
              /\ progress' = targetIndex' * Word
              /\ baseIndex' = targetIndex'
              /\ targetIndex' >= 0
              /\ NonEmpty =>
                    /\ targetIndex' <= contentLength - 1
                    /\ targetIndex' * Word <= val
                    /\ val < (targetIndex' + 1) * Word
      ]_vars

\* Paused on the last word of the longest stream of ticker mode, with the
\* cursor, the target and the mirror equal and no animation left.
C36_Witness ==
    /\ contentLength = MaxWords
    /\ isTickerMode
    /\ wpm = 0
    /\ savedWpm = 600
    /\ animation = NoAnimation
    /\ progress = (contentLength - 1) * Word
    /\ targetIndex = contentLength - 1
    /\ baseIndex = contentLength - 1

\* ------------------------------------- the offset table of src/unnamed/part_004
\* The narration of part_004 reads the rest of the stream in one utterance
\* and keeps the start offset of every word of it in sliceMap.

\* A table whose offsets leave the joining spaces out.
NextStartWithoutSpace(acc, w) == acc + Len(w)

\* acc += w.length + 1
NextStart(acc, w) == acc + Len(w) + 1

\* for (let w of words) { map.push(acc); acc += w.length + 1 }
RECURSIVE SliceMapFrom(_, _, _)
SliceMapFrom(ws, i, acc) ==
    IF i > Len(ws) THEN <<>>
    ELSE <<acc>> \o SliceMapFrom(ws, i + 1, NextStart(acc, ws[i]))

\* sliceMap.current for the words the utterance u reads.
sliceMap(u) ==
    SliceMapFrom(SubSeq(words, u.startIndex + 1, u.startIndex + u.words), 1, 0)

\* for (i = 0; i < map.length; i++) { if (map[i] > charIdx) break; idx = i }
\* with i counted from 1 here and idx from 0 as in the source.
RECURSIVE ScanFrom(_, _, _, _)
ScanFrom(map, charIdx, i, idx) ==
    IF i > Len(map) THEN idx
    ELSE IF map[i] > charIdx THEN idx
    ELSE ScanFrom(map, charIdx, i + 1, i - 1)

SliceIndex(u, charIdx) == ScanFrom(sliceMap(u), charIdx, 1, 0)

\* C37: the two mappings from a character offset to a word offset agree: for
\* the words an utterance reads, joined by single spaces, and every offset k
\* within their text, the number of pieces of the prefix of length k less
\* one (part_003) is the index found by scanning the table of start offsets
\* for the last start <= k (part_004).
C37_OffsetMappingsAgree ==
    utterance.active =>
        \A k \in 0..TextLength(utterance) :
            WordOffset(utterance, k) = SliceIndex(utterance, k)

\* An utterance of three words or more: at the last character before the
\* third word both mappings give the second word, at its first character
\* both give the third.
C37_Witness ==
    /\ utterance.active
    /\ utterance.words >= 3
    /\ \A s \in {StartOffset(utterance, 2)} :
          /\ WordOffset(utterance, s - 1) = 1
          /\ SliceIndex(utterance, s - 1) = 1
          /\ WordOffset(utterance, s) = 2
          /\ SliceIndex(utterance, s) = 2

\* ------------------------------------------------------- the book list
\* updateBookProgress and deleteBook of the app context are called without
\* being awaited (ReaderScreen.tsx 113, 146; MyBooksScreen.tsx 37), so that
\* several calls are in progress at a time.  Each one awaits loadMyBooks,
\* changes the list it was given, awaits AsyncStorage.setItem with the
\* result and then updates the React state myBooks.  No call waits for
\* another one.

\* Calls made in one exploration.
MaxCalls == 3
BookIds == {1, 2}
WordIndices == {10, 20}

\* A BookProgress, its bookId and currentWordIndex kept.
BookProgress(bookId, index) == [bookId |-> bookId, currentWordIndex |-> index]

\* books.findIndex(b => b.bookId === bookId), counted from 1; 0 for -1.
findIndex(books, bookId) ==
    IF \E i \in 1..Len(books) : books[i].bookId = bookId
    THEN CHOOSE i \in 1..Len(books) :
             /\ books[i].bookId = bookId
             /\ \A j \in 1..(i - 1) : books[j].bookId # bookId
    ELSE 0

\* Update or add.
WithProgress(books, p) ==
    IF findIndex(books, p.bookId) >= 1
    THEN [books EXCEPT ![findIndex(books, p.bookId)] = p]
    ELSE Append(books, p)

\* books.filter(b => b.bookId !== bookId)
WithoutBook(books, bookId) ==
    SelectSeq(books, LAMBDA b : b.bookId # bookId)

\* What a call makes of a list.
Modified(call, books) ==
    IF call.op = "save"
    THEN WithProgress(books, BookProgress(call.bookId, call.currentWordIndex))
    ELSE WithoutBook(books, call.bookId)

\* Everything but the book list.
screen ==
    <<gestureStart, tickedMs, book, window, narration, contentLength, wpm,
      savedWpm, isTickerMode, baseIndex, progress, isInteracting,
      isManualTransition, waitTimer, targetIndex, startProgressRef,
      wasPlayingBeforeModeSwitch, animation, responder>>

\* updateBookProgress(progress) is called: saveBookProgress starts and
\* awaits loadMyBooks.
updateBookProgress(bookId, index) ==
    /\ Len(calls) < MaxCalls
    /\ calls' = Append(calls, [op |-> "save", bookId |-> bookId,
                               currentWordIndex |-> index,
                               pc |-> "load", books |-> <<>>,
                               stored |-> 0])
    /\ UNCHANGED <<storedBooks, myBooks, screen>>

\* deleteBook(bookId) is called: removeBook starts and awaits loadMyBooks.
deleteBook(bookId) ==
    /\ Len(calls) < MaxCalls
    /\ calls' = Append(calls, [op |-> "remove", bookId |-> bookId,
                               currentWordIndex |-> 0,
                               pc |-> "load", books |-> <<>>,
                               stored |-> 0])
    /\ UNCHANGED <<storedBooks, myBooks, screen>>

\* AsyncStorage.getItem of call c reads the list (absent is the empty list).
loadMyBooks(c) ==
    /\ calls[c].pc = "load"
    /\ calls' = [calls EXCEPT ![c].books = storedBooks, ![c].pc = "store"]
    /\ UNCHANGED <<storedBooks, myBooks, screen>>

\* The writes made so far.
Stores == Cardinality({d \in 1..Len(calls) : calls[d].stored > 0})

\* Call c changes the list it loaded and AsyncStorage.setItem writes it;
\* stored is the place of the write among all writes, kept as history.
setItem(c) ==
    /\ calls[c].pc = "store"
    /\ storedBooks' = Modified(calls[c], calls[c].books)
    /\ calls' = [calls EXCEPT ![c].books = <<>>, ![c].pc = "state",
                              ![c].stored = Stores + 1]
    /\ UNCHANGED <<myBooks, screen>>

\* Call c resumes in the app context: setMyBooks(prev => ...).
setMyBooks(c) ==
    /\ calls[c].pc = "state"
    /\ myBooks' = Modified(calls[c], myBooks)
    /\ calls' = [calls EXCEPT ![c].pc = "done"]
    /\ UNCHANGED <<storedBooks, screen>>

InitStorage == NoBook /\ contentLength = 0 /\ Mounted(0)

NextStorage ==
    \/ \E bookId \in BookIds : \E index \in WordIndices :
           updateBookProgress(bookId, index)
    \/ \E bookId \in BookIds : deleteBook(bookId)
    \/ \E c \in 1..Len(calls) : loadMyBooks(c)
    \/ \E c \in 1..Len(calls) : setItem(c)
    \/ \E c \in 1..Len(calls) : setMyBooks(c)

SpecStorage == InitStorage /\ [][NextStorage]_vars

AllCallsDone == calls # <<>> /\ \A c \in 1..Len(calls) : calls[c].pc = "done"

\* The call for a book that wrote to the store last, 0 when there is none.
LastCallFor(bookId) ==
    IF \E c \in 1..Len(calls) : calls[c].bookId = bookId
    THEN CHOOSE c \in 1..Len(calls) :
             /\ calls[c].bookId = bookId
             /\ \A d \in 1..Len(calls) :
                    calls[d].bookId = bookId => calls[d].stored <= calls[c].stored
    ELSE 0

StoredEntries(bookId) ==
    {i \in 1..Len(storedBooks) : storedBooks[i].bookId = bookId}

\* C38: no update of the stored book list is lost, however the load and
\* store steps of saveBookProgress and removeBook calls interleave: once
\* every call has completed, a book whose last write saved progress has one
\* entry, with that progress, a book whose last write removed it (and a book
\* never saved) has none, and no book has two entries.
C38_NoUpdateLost ==
    AllCallsDone =>
        \A bookId \in BookIds :
            /\ Cardinality(StoredEntries(bookId)) <= 1
            /\ IF /\ LastCallFor(bookId) > 0
                  /\ calls[LastCallFor(bookId)].op = "save"
               THEN \E i \in StoredEntries(bookId) :
                        storedBooks[i].currentWordIndex =
                            calls[LastCallFor(bookId)].currentWordIndex
               ELSE StoredEntries(bookId) = {}

====
